---- MODULE Spec2Model ----
(***************************************************************************)
(* SMerge (z0rr0/smerge): the crawler's refresh engine (crawler.go) and    *)
(* the retrying round tripper (client.go).                                 *)
(*                                                                         *)
(* Byte strings are sequences of byte values (0..255); a token list is a   *)
(* sequence of byte strings.                                               *)
(***************************************************************************)
EXTENDS Integers, Sequences, FiniteSets, TLC

\* ------------------------------------------------------------------ bytes
LF == 10
Pad == 61

IsSpace(b) == b \in {9, 10, 11, 12, 13, 32}

\* strings.Fields: split on runs of white space, no empty field.
RECURSIVE FieldsFrom(_, _, _)
FieldsFrom(s, i, cur) ==
  IF i > Len(s) THEN (IF cur = <<>> THEN <<>> ELSE <<cur>>)
  ELSE IF IsSpace(s[i])
       THEN (IF cur = <<>> THEN <<>> ELSE <<cur>>) \o FieldsFrom(s, i + 1, <<>>)
       ELSE FieldsFrom(s, i + 1, Append(cur, s[i]))

Fields(s) == FieldsFrom(s, 1, <<>>)

\* strings.HasPrefix
HasPrefix(s, p) == Len(p) <= Len(s) /\ SubSeq(s, 1, Len(p)) = p

\* Go's string comparison: byte-wise lexicographic.
RECURSIVE StrLess(_, _)
StrLess(a, b) ==
  IF b = <<>> THEN FALSE
  ELSE IF a = <<>> THEN TRUE
  ELSE IF a[1] # b[1] THEN a[1] < b[1]
  ELSE StrLess(Tail(a), Tail(b))

RECURSIVE InsertSorted(_, _)
InsertSorted(x, s) ==
  IF s = <<>> THEN <<x>>
  ELSE IF StrLess(x, s[1]) THEN <<x>> \o s
  ELSE <<s[1]>> \o InsertSorted(x, Tail(s))

\* sort.Strings
RECURSIVE SortStrings(_)
SortStrings(s) ==
  IF s = <<>> THEN <<>> ELSE InsertSorted(s[1], SortStrings(Tail(s)))

\* strings.Join
RECURSIVE Join(_, _)
Join(s, sep) ==
  IF s = <<>> THEN <<>>
  ELSE IF Len(s) = 1 THEN s[1]
  ELSE s[1] \o sep \o Join(Tail(s), sep)

\* ----------------------------------------------------------------- base64
\* The standard alphabet: A-Z a-z 0-9 + /
B64Char(n) ==
  IF n < 26 THEN 65 + n
  ELSE IF n < 52 THEN 97 + (n - 26)
  ELSE IF n < 62 THEN 48 + (n - 52)
  ELSE IF n = 62 THEN 43 ELSE 47

\* The sextet of an alphabet byte, -1 for a byte outside the alphabet.
B64Val(c) ==
  IF c >= 65 /\ c <= 90 THEN c - 65
  ELSE IF c >= 97 /\ c <= 122 THEN c - 97 + 26
  ELSE IF c >= 48 /\ c <= 57 THEN c - 48 + 52
  ELSE IF c = 43 THEN 62
  ELSE IF c = 47 THEN 63 ELSE -1

\* base64.StdEncoding.Encode: 3 bytes to 4 characters, '=' padding.
RECURSIVE B64Encode(_)
B64Encode(s) ==
  IF s = <<>> THEN <<>>
  ELSE IF Len(s) = 1 THEN
    << B64Char(s[1] \div 4), B64Char((s[1] % 4) * 16), Pad, Pad >>
  ELSE IF Len(s) = 2 THEN
    << B64Char(s[1] \div 4),
       B64Char((s[1] % 4) * 16 + s[2] \div 16),
       B64Char((s[2] % 16) * 4), Pad >>
  ELSE
    << B64Char(s[1] \div 4),
       B64Char((s[1] % 4) * 16 + s[2] \div 16),
       B64Char((s[2] % 16) * 4 + s[3] \div 64),
       B64Char(s[3] % 64) >> \o B64Encode(SubSeq(s, 4, Len(s)))

RECURSIVE DropNewlines(_)
DropNewlines(s) ==
  IF s = <<>> THEN <<>>
  ELSE IF s[1] \in {10, 13} THEN DropNewlines(Tail(s))
  ELSE <<s[1]>> \o DropNewlines(Tail(s))

\* One quantum of 4 characters; last tells whether it ends the input.
B64QuadOk(q, last) ==
  /\ B64Val(q[1]) >= 0
  /\ B64Val(q[2]) >= 0
  /\ \/ B64Val(q[3]) >= 0 /\ B64Val(q[4]) >= 0
     \/ last /\ B64Val(q[3]) >= 0 /\ q[4] = Pad
     \/ last /\ q[3] = Pad /\ q[4] = Pad

B64Quad(q) ==
  LET a == B64Val(q[1])
      b == B64Val(q[2])
      c == IF q[3] = Pad THEN 0 ELSE B64Val(q[3])
      d == IF q[4] = Pad THEN 0 ELSE B64Val(q[4])
      full == << a * 4 + b \div 16, (b % 16) * 16 + c \div 4, (c % 4) * 64 + d >>
  IN  IF q[3] = Pad THEN SubSeq(full, 1, 1)
      ELSE IF q[4] = Pad THEN SubSeq(full, 1, 2)
      ELSE full

RECURSIVE B64Valid(_)
B64Valid(s) ==
  IF s = <<>> THEN TRUE
  ELSE IF Len(s) < 4 THEN FALSE
  ELSE /\ B64QuadOk(SubSeq(s, 1, 4), Len(s) = 4)
       /\ B64Valid(SubSeq(s, 5, Len(s)))

RECURSIVE B64Bytes(_)
B64Bytes(s) ==
  IF s = <<>> THEN <<>>
  ELSE B64Quad(SubSeq(s, 1, 4)) \o B64Bytes(SubSeq(s, 5, Len(s)))

\* base64.StdEncoding.Decode (padding required, CR and LF skipped):
\* the decoded bytes, or an error.
B64Decode(s) ==
  LET t == DropNewlines(s)
  IN  IF B64Valid(t) THEN [err |-> FALSE, data |-> B64Bytes(t)]
      ELSE [err |-> TRUE, data |-> <<>>]


\* ------------------------------------------------- crawler: pure functions
\* Prefixes.Match
Match(prefixes, subURL) == \E p \in prefixes : HasPrefix(subURL, p)

\* A Filter that keeps nothing when there is no prefix.
FilterNoPassThrough(prefixes, subURLs) ==
  SelectSeq(subURLs, LAMBDA u : Match(prefixes, u))

\* Subscription.Filter: the tokens that have one of the prefixes, in order;
\* everything when there is no prefix.
Filter(prefixes, subURLs) ==
  IF subURLs = <<>> \/ prefixes = {} THEN subURLs
  ELSE SelectSeq(subURLs, LAMBDA u : Match(prefixes, u))

\* readSubscription: the body, base64-decoded when the subscription is
\* encoded, split by strings.Fields.
readSubscription(body, encoded) ==
  IF encoded
  THEN LET d == B64Decode(body)
       IN  IF d.err THEN [err |-> TRUE, urls |-> <<>>]
           ELSE [err |-> FALSE, urls |-> Fields(d.data)]
  ELSE [err |-> FALSE, urls |-> Fields(body)]

\* A merge that keeps the urls in the order of their arrival.
prepareGroupResultUnsorted(urls, encoded) ==
  IF Len(urls) = 0 THEN <<>>
  ELSE LET groupResult == Join(urls, <<LF>>)
       IN  IF encoded THEN B64Encode(groupResult) ELSE groupResult

\* prepareGroupResult: nil for no urls; else sorted, joined by LF and
\* base64-encoded for an encoded group.
prepareGroupResult(urls, encoded) ==
  IF Len(urls) = 0 THEN <<>>
  ELSE LET groupResult == Join(SortStrings(urls), <<LF>>)
       IN  IF encoded THEN B64Encode(groupResult) ELSE groupResult

\* A decodeGroup that hands the stored bytes back as they are.
decodeGroupStored(groupResult) ==
  [status |-> "ok", body |-> groupResult]

\* decodeGroup
decodeGroup(groupResult) ==
  LET d == B64Decode(groupResult)
  IN  IF d.err THEN [status |-> "decodeerr", body |-> <<>>]
      ELSE [status |-> "ok", body |-> d.data]

\* needDecode without the test of group.Encoded.
needDecodeAnyGroup(known, encoded, decode, resultSize) ==
  IF ~decode \/ resultSize = 0 THEN FALSE ELSE known

\* needDecode: decode is asked for, the entry is not empty, the group is
\* known and encoded.
needDecode(known, encoded, decode, resultSize) ==
  IF ~decode \/ resultSize = 0 THEN FALSE ELSE known /\ encoded

\* ------------------------------------------------------- the configuration
\* Two groups: g1, not encoded, with two plain subscriptions (the second
\* filtered by a prefix); g2, encoded, with one encoded subscription.
\* body is what the upstream serves for the subscription.
SubS1 == [name |-> "s1", encoded |-> FALSE, prefixes |-> {},
          body |-> <<98, 10, 97>>]
SubS2 == [name |-> "s2", encoded |-> FALSE, prefixes |-> {<<99>>},
          body |-> <<99, 10, 120, 100>>]
SubS3 == [name |-> "s3", encoded |-> TRUE, prefixes |-> {},
          body |-> B64Encode(<<98, 32, 97, 10>>)]

GroupNames == {"g1", "g2"}
Groups ==
  [g \in GroupNames |->
     IF g = "g1" THEN [Encoded |-> FALSE, Subscriptions |-> <<SubS1, SubS2>>]
     ELSE [Encoded |-> TRUE, Subscriptions |-> <<SubS3>>]]

\* A name no group has.
UnknownGroup == "gx"

\* The goroutines that call fetchGroup: the scheduler of each group (named
\* as its group) and the callers of Get.
Clients == {"k1", "k2"}
Callers == GroupNames \cup Clients

MaxSubs == 2
SubIdx == 1..MaxSubs
NSubs(g) == Len(Groups[g].Subscriptions)

\* The tokens and the prefixes a call of Filter is given: lists of at most
\* MaxURLs tokens, and any set of the prefixes, the empty one among them.
MaxURLs == 3
FilterURLs == {<<97>>, <<97, 98>>, <<98>>, <<99, 97>>}
FilterPrefixes == {<<>>, <<97>>, <<97, 98>>, <<99>>}
\* A call of Filter: its receiver's HasPrefixes, its argument, its result.
NoFilter == [pc |-> "idle", prefixes |-> {}, subURLs |-> <<>>, out |-> <<>>]

\* ------------------------------------------------------------------ bounds
MaxConcurrent == 2
MaxTicks == 3
MaxGets == 2
MaxAttempts == 3
MaxAllows == 4
MaxTime == 5
MaxReqs == 3
MaxSignals == 2

\* subResult = make(chan fetchResult, 1)
ChanCap == 1
\* time.NewTicker: the ticker's channel holds one tick
TickerCap == 1

\* How a worker's fetch ends: with the tokens, with an error of the fetch,
\* a status other than 200, an error of the read, or a panic.
Outcomes == {"ok", "fetch", "status", "read", "panic"}

VARIABLES
  result,     \* Crawler.result: group -> [ok, data]; ok = FALSE: no entry;
              \* seq: which refresh stored the entry (history)
  mu,         \* the callers between c.Lock() and c.Unlock()
  sem,        \* tokens in Crawler.semaphore
  semClosed,  \* close(c.semaphore) done
  cancelled,  \* c.ctx is done
  shut,       \* Shutdown: "idle", "waiting" (wg.Wait), "closed"
  pc,         \* where each caller goroutine is
  fg,         \* each caller's fetchGroup frame
  wk,         \* the workers of each caller's fetchGroup
  orphans,    \* workers whose result channel was closed under them
  crashed,    \* the process died on an unrecovered panic
  tickC,      \* each scheduler's ticker channel
  nTicks,     \* ticks the ticker produced (history)
  nStart,     \* refreshes each scheduler started (history)
  get,        \* each client's Get call and what it returned
  nGets,      \* Get calls made (history)
  trip,       \* a RoundTrip call of the retrying transport
  lim,        \* the IPRateLimiter, its callers and its cleanup goroutine
  srv,        \* server.Run, the http.Server and its handler goroutines
  ft,         \* one fetchSubscription call and what it opened
  hw,         \* one request in ErrorHandlingMiddleware and its writers
  flt         \* one call of Subscription.Filter and what it returned

vars == << result, mu, sem, semClosed, cancelled, shut, pc, fg, wk, orphans,
           crashed, tickC, nTicks, nStart, get, nGets, trip, lim, srv, ft,
           hw, flt >>

\* The variables of the crawler, and for each part of the program the
\* variables its steps leave alone.
cvars == << result, mu, sem, semClosed, cancelled, shut, pc, fg, wk, orphans,
            crashed, tickC, nTicks, nStart, get, nGets >>
xcrawler == << trip, lim, srv, ft, hw, flt >>
xretry == << cvars, lim, srv, ft, hw, flt >>
xlimiter == << cvars, trip, srv, ft, hw, flt >>
xserver == << trip, ft, hw, flt >>
xfetch == << cvars, lim, srv, hw, flt >>
xrecover == << cvars, trip, lim, srv, ft, flt >>
xfilter == << cvars, trip, lim, srv, ft, hw >>

\* No entry in c.result.
NoResult == [ok |-> FALSE, data |-> <<>>, seq |-> 0]
\* A fetchGroup frame: the group, the index of the next subscription to
\* start, what the collecting goroutine has (got results, their urls, ready
\* closed), and the buffer of subResult; seq tells the order in which the
\* forced refreshes started, and is 0 for a scheduled one (history).
NoFrame == [grp |-> "", i |-> 0, got |-> 0, urls |-> <<>>, ready |-> FALSE,
            ch |-> <<>>, seq |-> 0]
\* A worker: "none" (not started), "run" (fetching, or blocked in the send
\* of fetchSubscription), "sentOk", "sentFailed", "sentPanic" (fetchRes is
\* sent, the slot is not given back yet; the fetch gave no error, an error,
\* a panic), "send2" (blocked in the send of the recover handler), "ok"
\* (returned, its fetch gave no error), "failed" (returned).
NoWorkers == [j \in SubIdx |-> "none"]
\* A Get call: its arguments, what it returned, and as history the seq of
\* the refresh it ran (seq) and of the refresh whose entry it read (from).
NoGet == [name |-> "", force |-> FALSE, decode |-> FALSE, status |-> "none",
          body |-> <<>>, seq |-> 0, from |-> 0]
\* A RoundTrip call: where it is (pc), rrt.maxRetries, the loop index i, the
\* request's context (ctx), the resp and err of the loop, what it returned
\* (ret), and as history the calls of rrt.next.RoundTrip: all of them
\* (calls), those made with a context that was done (late), and what each
\* gave, with the number of times the body of its response was closed
\* (tries); delay is the delay of the last attempt begun, an int64 of
\* nanoseconds.
NoReturn == [resp |-> 0, err |-> {}]
NoTrip == [pc |-> "idle", maxRetries |-> 0, i |-> 0, ctx |-> "live",
           resp |-> 0, err |-> {}, ret |-> NoReturn, calls |-> 0, late |-> 0,
           tries |-> <<>>, delay |-> <<0, 0, 0, 0, 0, 0, 0, 0>>]

\* The limiter's configuration: the rates and bursts a configuration may
\* give (0 is "not set"), the refill interval and the clean interval in
\* ticks of the clock, the keys (remote addresses) and the excluded ones.
Rates == {0, 1}
Bursts == {0, 2}
Interval == 2
CleanInterval == 4
LimKeys == {"ka", "kb", "kx"}
Excluded == {"kx"}
\* The goroutines that ask the limiter: the handlers of the requests.
LimCallers == Clients \cup {"k3"}

\* A caller of the limiter: the key it asks for, the bucket it holds (0:
\* none) and the answer of Allow.
NoCall == [pc |-> "idle", key |-> "", b |-> 0, ok |-> "none"]
\* The limiter before runLimiter: pc is "new", then "on" (a limiter was
\* made) or "off" (runLimiter returned nil), with the rate and the burst of
\* the configuration. heap are the TokenBuckets made
\* so far, tokens counted in 1/Interval of a token; buckets maps a key to
\* its place in heap (0: no entry). task is the cleanup goroutine, ctx the
\* context it was given, done its channel. As history: the clock, the
\* Allow calls made, and for each key the times at which Allow gave true.
\* An eviction pass in its steps: pc is "idle" (no pass; irl is not locked
\* by it), "scan" (irl.Lock() is held, between two buckets) or "read" (it
\* also holds the read lock of the bucket of key at); scan are the keys
\* the range has still to visit, now and removed the locals of
\* cleanupBuckets. held are the bucket locks held: who holds which bucket.
NoPass == [pc |-> "idle", scan |-> {}, at |-> "", now |-> 0, removed |-> 0,
           held |-> {}]
NoLimiter ==
  [pc |-> "new", rate |-> 0, burst |-> 0, heap |-> <<>>,
   buckets |-> [k \in LimKeys |-> 0], cl |-> [p \in LimCallers |-> NoCall],
   task |-> "none", ctx |-> "live", done |-> FALSE, count |-> 0,
   pass |-> NoPass,
   now |-> 0, nAllow |-> 0, grants |-> [k \in LimKeys |-> <<>>]]

\* The methods and paths of the requests, the health paths, and
\* config.GroupsEndpoints(): the group of each endpoint.
Methods == {"GET", "POST"}
HealthPaths == {"/ok", "/health", "/ping"}
GroupsEndpoints == [p \in {"/g1", "/g2"} |-> IF p = "/g1" THEN "g1" ELSE "g2"]
Paths == {"/ok", "/g2", "/nope"}
HttpClients == {"k1"}
\* A handler goroutine: where it is in the chain of handlers (at), the
\* request it serves, nGets of its goroutine when the request came in.
NoRequest == [pc |-> "idle", at |-> 0, key |-> "", method |-> "", path |-> "",
              force |-> FALSE, n |-> 0]
\* A response as written: the status and, for a group, the data; with
\* it the method, the path and the force of its request.
NoResponse == [status |-> 0, body |-> <<>>, method |-> "", path |-> "",
               force |-> FALSE]
\* server.Run: state is "new", "listening" (ListenAndServe), "closing"
\* (srv.Shutdown was called), "stopped" (serverStopped is closed),
\* "returned"; sd is the goroutine that waits for the signal: "wait",
\* "crawler" (in cr.Shutdown), "server" (in srv.Shutdown), "done". As
\* history: the requests accepted, those for a group, the responses written,
\* and whether srv.Shutdown timed out. With a ListenAndServe that fails,
\* state is "failed" and main tells where Run is: "serve" (before or in
\* ListenAndServe, or past it without an error), "send" (in sigint <-
\* os.Interrupt), "wait" (past it); sigint is the number of signals in the
\* channel and nSig the number of signals delivered (history).
NoServer ==
  [state |-> "new", sd |-> "wait", timedOut |-> FALSE, main |-> "serve",
   sigint |-> 0, nSig |-> 0,
   req |-> [k \in Clients |-> NoRequest],
   resp |-> [k \in Clients |-> NoResponse], nReq |-> 0, nGroup |-> 0,
   nResp |-> 0]

\* A fetchSubscription call: where it is (pc), whether the subscription is
\* a local file, its context (of a local one; a request carries its own),
\* the goroutine that opens the file (opener: "none", "opening", "opened",
\* "failed"), the reader it holds ("none", "file", "body"), the error of
\* its result ("none" before the return, "nil", or the step that failed)
\* and whether that error wraps the error of a context. As history: how
\* often the file and the returned body were closed.
NoFetch == [pc |-> "idle", local |-> FALSE, ctx |-> "live", opener |-> "none",
            reader |-> "none", error |-> "none", ctxerr |-> FALSE,
            fclosed |-> 0, rclosed |-> 0]

\* One request on its way through LoggingMiddleware and
\* ErrorHandlingMiddleware: where it is (pc), the responseWriter of
\* LoggingMiddleware (rw), the http.ResponseWriter it wraps (under: the
\* status sent, 0 for none, and the bytes written), the status
\* LoggingMiddleware logged, and as history the calls the inner handler
\* made (ops) and the status that was sent when it panicked (atPanic).
NoWriter == [pc |-> "idle",
             rw |-> [wroteHeader |-> FALSE, status |-> 0, written |-> 0],
             under |-> [status |-> 0, body |-> 0],
             logged |-> 0, ops |-> <<>>, panicked |-> FALSE, atPanic |-> 0]

Init ==
  /\ crashed = FALSE
  /\ result = [g \in GroupNames |-> NoResult]
  /\ mu = {}
  /\ sem = 0
  /\ semClosed = FALSE
  /\ cancelled = FALSE
  /\ shut = "idle"
  /\ pc = [c \in Callers |-> IF c \in GroupNames THEN "new" ELSE "idle"]
  /\ fg = [c \in Callers |-> NoFrame]
  /\ wk = [c \in Callers |-> NoWorkers]
  /\ orphans = [hold |-> 0, free |-> 0, sent |-> 0]
  /\ tickC = [g \in GroupNames |-> <<>>]
  /\ nTicks = [g \in GroupNames |-> 0]
  /\ nStart = [g \in GroupNames |-> 0]
  /\ get = [k \in Clients |-> NoGet]
  /\ nGets = [k \in Clients |-> 0]
  /\ trip = NoTrip
  /\ lim = NoLimiter
  /\ srv = NoServer
  /\ ft = NoFetch
  /\ hw = NoWriter
  /\ flt = NoFilter

\* The process has exited: nothing of its state is left.
Gone ==
  /\ result' = [g \in GroupNames |-> NoResult]
  /\ mu' = {}
  /\ sem' = 0
  /\ semClosed' = FALSE
  /\ cancelled' = FALSE
  /\ shut' = "idle"
  /\ pc' = [c \in Callers |-> "gone"]
  /\ fg' = [c \in Callers |-> NoFrame]
  /\ wk' = [c \in Callers |-> NoWorkers]
  /\ orphans' = [hold |-> 0, free |-> 0, sent |-> 0]
  /\ tickC' = [g \in GroupNames |-> <<>>]
  /\ nTicks' = [g \in GroupNames |-> 0]
  /\ nStart' = [g \in GroupNames |-> 0]
  /\ get' = [k \in Clients |-> NoGet]
  /\ nGets' = [k \in Clients |-> 0]
  /\ trip' = NoTrip
  /\ lim' = NoLimiter
  /\ srv' = [NoServer EXCEPT !.state = "gone"]
  /\ ft' = NoFetch
  /\ hw' = NoWriter
  /\ flt' = NoFilter

\* The bounds are on the ticks of all tickers and on the Get calls of all
\* clients.
RECURSIVE SumOver(_, _)
SumOver(f, S) ==
  IF S = {} THEN 0
  ELSE LET e == CHOOSE e \in S : TRUE IN f[e] + SumOver(f, S \ {e})

TotalTicks == SumOver(nTicks, GroupNames)
TotalGets == SumOver(nGets, Clients)

InFetch(c) == pc[c] \in {"fetch1", "fetchT", "fetch"}

\* ------------------------------------------------------------- fetchGroup
\* The frame of a fetchGroup call that starts: the result channel is empty,
\* the collecting goroutine waits for len(Subscriptions) results.
BeginFetch(g) ==
  [grp |-> g, i |-> 1, got |-> 0, urls |-> <<>>, ready |-> (NSubs(g) = 0),
   ch |-> <<>>, seq |-> 0]

\* The forced refreshes are numbered in the order of their start.
NextSeq == TotalGets + 1

\* The number of results after which the collecting goroutine closes ready.
CollectTarget(g) == NSubs(g)

\* fetchSubscription: the fetchRes its deferred send delivers when the fetch
\* ends as out. A panic leaves fetchRes as it was initialised.
fetchSubscription(sub, out) ==
  IF out = "ok"
  THEN LET r == readSubscription(sub.body, sub.encoded)
       IN  IF r.err
           THEN [subscription |-> sub.name, urls |-> <<>>, error |-> "read"]
           ELSE [subscription |-> sub.name,
                 urls |-> Filter(sub.prefixes, r.urls), error |-> "nil"]
  ELSE IF out = "panic"
  THEN [subscription |-> sub.name, urls |-> <<>>, error |-> "nil"]
  ELSE [subscription |-> sub.name, urls |-> <<>>, error |-> out]

\* The result the recover handler of the worker goroutine sends.
PanicResult(sub) ==
  [subscription |-> sub.name, urls |-> <<>>, error |-> "panic"]

\* A send on subResult can go on: the collecting goroutine still receives,
\* or the buffer has room.
CanSend(f) == ~f.ready \/ Len(f.ch) < ChanCap

\* subResult <- res, together with the collecting goroutine's receive: while
\* it still collects it takes the result at once (a result with an error is
\* logged, the urls of another are appended) and closes ready after the
\* last; once it is done the result stays in the buffer.
Send(f, res) ==
  IF ~f.ready
  THEN [f EXCEPT !.got = @ + 1,
                 !.urls = IF res.error # "nil" THEN @ ELSE @ \o res.urls,
                 !.ready = (f.got + 1 = CollectTarget(f.grp))]
  ELSE [f EXCEPT !.ch = Append(@, res)]

\* What a caller does when its fetchGroup returns.
AfterFetch(c) == IF c \in Clients THEN "read" ELSE "select"

\* The states of a worker that has sent fetchRes and holds its slot, of one
\* that has sent fetchRes, and of one whose fetch gave no error.
Sent == {"sentOk", "sentFailed", "sentPanic"}
Delivered == Sent \cup {"send2", "ok", "failed"}
Succeeded == {"sentOk", "ok"}

\* close(subResult): the workers that have still to send lose their
\* channel (hold: with their slot, free: without it); those that only have
\* to give their slot back go on (sent).
Orphaned(c) ==
  [hold |-> orphans.hold
              + Cardinality({j \in SubIdx : wk[c][j] \in {"run", "sentPanic"}}),
   free |-> orphans.free + Cardinality({j \in SubIdx : wk[c][j] = "send2"}),
   sent |-> orphans.sent
              + Cardinality({j \in SubIdx :
                               wk[c][j] \in {"sentOk", "sentFailed"}})]

\* c.semaphore <- struct{}{}; go func(...): take a slot, then start the
\* worker of subscription fg[c].i.
Spawn(c) ==
  /\ ~crashed
  /\ InFetch(c)
  /\ fg[c].i <= NSubs(fg[c].grp)
  /\ ~semClosed
  /\ sem < MaxConcurrent
  /\ sem' = sem + 1
  /\ wk' = [wk EXCEPT ![c][fg[c].i] = "run"]
  /\ fg' = [fg EXCEPT ![c].i = @ + 1]
  /\ UNCHANGED xcrawler
  /\ UNCHANGED << result, mu, semClosed, cancelled, shut, pc, orphans, crashed,
                  tickC, nTicks, nStart, get, nGets >>

\* The semaphore was closed by Shutdown: the send panics in the caller of
\* fetchGroup, the deferred close(subResult) runs.
SpawnPanic(c) ==
  /\ ~crashed
  /\ InFetch(c)
  /\ fg[c].i <= NSubs(fg[c].grp)
  /\ semClosed
  /\ c \in Clients
  /\ get' = [get EXCEPT ![c].status = "panic"]
  /\ pc' = [pc EXCEPT ![c] = "idle"]
  /\ orphans' = Orphaned(c)
  /\ fg' = [fg EXCEPT ![c] = NoFrame]
  /\ wk' = [wk EXCEPT ![c] = NoWorkers]
  /\ UNCHANGED xcrawler
  /\ UNCHANGED << result, mu, sem, semClosed, cancelled, shut, crashed, tickC,
                  nTicks, nStart, nGets >>

\* <-c.semaphore: one slot is given back.
ReleaseTwice(n) == IF n >= 2 THEN n - 2 ELSE 0
Release(n) == n - 1

\* The worker of subscription j ends its fetch as out: the deferred send of
\* fetchSubscription delivers fetchRes, then the deferred function of the
\* goroutine gives the slot back. After a panic that function goes on to
\* send a second result.
WorkerFinish(c, j, out) ==
  /\ ~crashed
  /\ wk[c][j] = "run"
  /\ CanSend(fg[c])
  /\ LET sub == Groups[fg[c].grp].Subscriptions[j]
         res == fetchSubscription(sub, out)
     IN  /\ fg' = [fg EXCEPT ![c] = Send(@, res)]
         /\ wk' = [wk EXCEPT ![c][j] =
                     IF out = "panic" THEN "send2"
                     ELSE IF res.error = "nil" THEN "ok" ELSE "failed"]
  /\ sem' = Release(sem)
  /\ UNCHANGED xcrawler
  /\ UNCHANGED << result, mu, semClosed, cancelled, shut, pc, orphans, crashed,
                  tickC, nTicks, nStart, get, nGets >>

\* The same in two steps. First the deferred send of fetchSubscription
\* delivers fetchRes.
WorkerSend(c, j, out) ==
  /\ ~crashed
  /\ wk[c][j] = "run"
  /\ CanSend(fg[c])
  /\ LET sub == Groups[fg[c].grp].Subscriptions[j]
         res == fetchSubscription(sub, out)
     IN  /\ fg' = [fg EXCEPT ![c] = Send(@, res)]
         /\ wk' = [wk EXCEPT ![c][j] =
                     IF out = "panic" THEN "sentPanic"
                     ELSE IF res.error = "nil" THEN "sentOk"
                     ELSE "sentFailed"]
  /\ UNCHANGED xcrawler
  /\ UNCHANGED << result, mu, sem, semClosed, cancelled, shut, pc, orphans,
                  crashed, tickC, nTicks, nStart, get, nGets >>

\* Then the deferred function of the worker goroutine gives the slot back,
\* and the worker returns, or after a panic goes on to send a second
\* result.
WorkerRelease(c, j) ==
  /\ ~crashed
  /\ wk[c][j] \in Sent
  /\ sem' = Release(sem)
  /\ wk' = [wk EXCEPT ![c][j] =
              IF wk[c][j] = "sentPanic" THEN "send2"
              ELSE IF wk[c][j] = "sentOk" THEN "ok" ELSE "failed"]
  /\ UNCHANGED xcrawler
  /\ UNCHANGED << result, mu, semClosed, cancelled, shut, pc, fg, orphans,
                  crashed, tickC, nTicks, nStart, get, nGets >>

\* The recover handler's send: subResult <- fetchResult{..., error: panic}.
WorkerPanicSend(c, j) ==
  /\ ~crashed
  /\ wk[c][j] = "send2"
  /\ CanSend(fg[c])
  /\ fg' = [fg EXCEPT ![c] =
              Send(@, PanicResult(Groups[fg[c].grp].Subscriptions[j]))]
  /\ wk' = [wk EXCEPT ![c][j] = "failed"]
  /\ UNCHANGED xcrawler
  /\ UNCHANGED << result, mu, sem, semClosed, cancelled, shut, pc, orphans,
                  crashed, tickC, nTicks, nStart, get, nGets >>

\* A write lock that excludes nobody.
CanLockAlways(m) == TRUE

\* The write lock of the crawler is free for a writer, for a reader.
CanLock(m) == m = {}
CanRLock(m) == m = {}

\* A fetchGroup that takes the lock when it starts and fetches under it.
LockEarly(c) ==
  /\ ~crashed
  /\ InFetch(c)
  /\ c \notin mu
  /\ CanLock(mu)
  /\ mu' = mu \cup {c}
  /\ UNCHANGED xcrawler
  /\ UNCHANGED << result, sem, semClosed, cancelled, shut, pc, fg, wk,
                  orphans, crashed, tickC, nTicks, nStart, get, nGets >>

\* <-ready; prepareGroupResult; c.Lock().
Lock(c) ==
  /\ ~crashed
  /\ InFetch(c)
  /\ fg[c].i > NSubs(fg[c].grp)
  /\ fg[c].ready
  /\ c \notin mu
  /\ CanLock(mu)
  /\ mu' = mu \cup {c}
  /\ UNCHANGED xcrawler
  /\ UNCHANGED << result, sem, semClosed, cancelled, shut, pc, fg, wk,
                  orphans, crashed, tickC, nTicks, nStart, get, nGets >>

\* c.result[group.Name] = result; c.Unlock(); return, and with it the
\* deferred close(subResult).
Publish(c) ==
  /\ ~crashed
  /\ c \in mu
  /\ result' = [result EXCEPT ![fg[c].grp] =
                  [ok |-> TRUE,
                   data |-> prepareGroupResult(fg[c].urls,
                                               Groups[fg[c].grp].Encoded),
                   seq |-> fg[c].seq]]
  /\ mu' = mu \ {c}
  /\ orphans' = Orphaned(c)
  /\ fg' = [fg EXCEPT ![c] = NoFrame]
  /\ wk' = [wk EXCEPT ![c] = NoWorkers]
  /\ pc' = [pc EXCEPT ![c] = AfterFetch(c)]
  /\ UNCHANGED xcrawler
  /\ UNCHANGED << sem, semClosed, cancelled, shut, crashed, tickC, nTicks,
                  nStart, get, nGets >>

\* A worker whose channel was closed while it held its slot: its send
\* panics, the deferred function gives the slot back and recovers.
OrphanRelease ==
  /\ ~crashed
  /\ orphans.hold > 0
  /\ orphans' = [orphans EXCEPT !.hold = @ - 1, !.free = @ + 1]
  /\ sem' = Release(sem)
  /\ UNCHANGED xcrawler
  /\ UNCHANGED << result, mu, semClosed, cancelled, shut, pc, fg, wk, crashed,
                  tickC, nTicks, nStart, get, nGets >>

\* A worker that had sent fetchRes when its channel was closed gives its
\* slot back and returns.
OrphanReturn ==
  /\ ~crashed
  /\ orphans.sent > 0
  /\ orphans' = [orphans EXCEPT !.sent = @ - 1]
  /\ sem' = Release(sem)
  /\ UNCHANGED xcrawler
  /\ UNCHANGED << result, mu, semClosed, cancelled, shut, pc, fg, wk, crashed,
                  tickC, nTicks, nStart, get, nGets >>

\* The recover handler sends on the closed channel: a panic in a deferred
\* function of a goroutine, which nothing recovers.
OrphanCrash ==
  /\ ~crashed
  /\ orphans.free > 0
  /\ crashed' = TRUE
  /\ Gone

\* ------------------------------------------------------------ Run, Shutdown
\* Run: one goroutine per group.
Run ==
  /\ ~crashed
  /\ shut = "idle"
  /\ \A g \in GroupNames : pc[g] = "new"
  /\ pc' = [c \in Callers |-> IF c \in GroupNames THEN "start" ELSE pc[c]]
  /\ UNCHANGED xcrawler
  /\ UNCHANGED << result, mu, sem, semClosed, cancelled, shut, fg, wk, orphans,
                  crashed, tickC, nTicks, nStart, get, nGets >>

\* The goroutine of group g: the first fetchGroup.
SchedStart(g) ==
  /\ ~crashed
  /\ pc[g] = "start"
  /\ pc' = [pc EXCEPT ![g] = "fetch1"]
  /\ fg' = [fg EXCEPT ![g] = BeginFetch(g)]
  /\ nStart' = [nStart EXCEPT ![g] = @ + 1]
  /\ UNCHANGED xcrawler
  /\ UNCHANGED << result, mu, sem, semClosed, cancelled, shut, wk, orphans,
                  crashed, tickC, nTicks, get, nGets >>

\* A ticker whose channel keeps every tick.
TickSendKeepAll(ch) == Append(ch, "tick")

\* The ticker's send: it never blocks, a tick that finds the channel full is
\* dropped.
TickSend(ch) == IF Len(ch) < TickerCap THEN Append(ch, "tick") ELSE ch

\* The period elapses. The ticker exists once the first fetchGroup is over
\* and until the goroutine returns.
Tick(g) ==
  /\ ~crashed
  /\ pc[g] \in {"select", "fetchT"}
  /\ TotalTicks < MaxTicks
  /\ tickC' = [tickC EXCEPT ![g] = TickSend(@)]
  /\ nTicks' = [nTicks EXCEPT ![g] = @ + 1]
  /\ UNCHANGED xcrawler
  /\ UNCHANGED << result, mu, sem, semClosed, cancelled, shut, pc, fg, wk,
                  orphans, crashed, nStart, get, nGets >>

\* case <-ticker.C: c.fetchGroup(group). The select takes any ready case, so
\* a pending tick may win over a done context.
SchedTick(g) ==
  /\ ~crashed
  /\ pc[g] = "select"
  /\ tickC[g] # <<>>
  /\ tickC' = [tickC EXCEPT ![g] = Tail(@)]
  /\ pc' = [pc EXCEPT ![g] = "fetchT"]
  /\ fg' = [fg EXCEPT ![g] = BeginFetch(g)]
  /\ nStart' = [nStart EXCEPT ![g] = @ + 1]
  /\ UNCHANGED xcrawler
  /\ UNCHANGED << result, mu, sem, semClosed, cancelled, shut, wk, orphans,
                  crashed, nTicks, get, nGets >>

\* case <-c.ctx.Done(): return; the deferred ticker.Stop() and wg.Done().
SchedStop(g) ==
  /\ ~crashed
  /\ pc[g] = "select"
  /\ cancelled
  /\ pc' = [pc EXCEPT ![g] = "stopped"]
  /\ UNCHANGED xcrawler
  /\ UNCHANGED << result, mu, sem, semClosed, cancelled, shut, fg, wk, orphans,
                  crashed, tickC, nTicks, nStart, get, nGets >>

\* Shutdown: c.cancelFunc(), then it waits in c.wg.Wait().
ShutdownCancel ==
  /\ ~crashed
  /\ shut = "idle"
  /\ shut' = "waiting"
  /\ cancelled' = TRUE
  /\ UNCHANGED xcrawler
  /\ UNCHANGED << result, mu, sem, semClosed, pc, fg, wk, orphans, crashed,
                  tickC, nTicks, nStart, get, nGets >>

\* Shutdown: every goroutine Run started is done; close(c.semaphore).
ShutdownClose ==
  /\ ~crashed
  /\ shut = "waiting"
  /\ \A g \in GroupNames : pc[g] \in {"new", "stopped"}
  /\ shut' = "closed"
  /\ semClosed' = TRUE
  /\ UNCHANGED xcrawler
  /\ UNCHANGED << result, mu, sem, cancelled, pc, fg, wk, orphans, crashed,
                  tickC, nTicks, nStart, get, nGets >>

\* --------------------------------------------------------------------- Get
\* GetResult with an empty entry taken for no entry.
GetResultEmptyIsMissing(name, decode) ==
  LET groupResult == result[name]
  IN  IF ~groupResult.ok \/ groupResult.data = <<>>
      THEN [status |-> "notfound", body |-> <<>>]
      ELSE IF needDecode(name \in GroupNames, Groups[name].Encoded, decode,
                         Len(groupResult.data))
      THEN decodeGroup(groupResult.data)
      ELSE [status |-> "ok", body |-> groupResult.data]

\* Get from the read of c.result on: no entry is ErrNotFoundGroup; the
\* entry is decoded when needDecode says so.
GetResult(name, decode) ==
  LET groupResult == result[name]
  IN  IF ~groupResult.ok THEN [status |-> "notfound", body |-> <<>>]
      ELSE IF needDecode(name \in GroupNames, Groups[name].Encoded, decode,
                         Len(groupResult.data))
      THEN decodeGroup(groupResult.data)
      ELSE [status |-> "ok", body |-> groupResult.data]

Returned(name, force, decode, r) ==
  [name |-> name, force |-> force, decode |-> decode, status |-> r.status,
   body |-> r.body, seq |-> 0, from |-> 0]

\* Get(name, force, decode) up to its return, or up to the call of
\* fetchGroup when force is set.
GetCall(k, name, force, decode) ==
  /\ ~crashed
  /\ pc[k] = "idle"
  /\ TotalGets < MaxGets
  /\ (name \in GroupNames /\ ~force) => CanRLock(mu)
  /\ nGets' = [nGets EXCEPT ![k] = @ + 1]
  /\ IF name \notin GroupNames
     THEN /\ get' = [get EXCEPT ![k] =
                       Returned(name, force, decode,
                                [status |-> "notfound", body |-> <<>>])]
          /\ UNCHANGED << pc, fg >>
     ELSE IF force
     THEN /\ get' = [get EXCEPT ![k] =
                       [Returned(name, force, decode,
                                 [status |-> "none", body |-> <<>>])
                          EXCEPT !.seq = NextSeq]]
          /\ pc' = [pc EXCEPT ![k] = "fetch"]
          /\ fg' = [fg EXCEPT ![k] = [BeginFetch(name) EXCEPT !.seq = NextSeq]]
     ELSE /\ get' = [get EXCEPT ![k] =
                       Returned(name, force, decode, GetResult(name, decode))]
          /\ UNCHANGED << pc, fg >>
  /\ UNCHANGED xcrawler
  /\ UNCHANGED << result, mu, sem, semClosed, cancelled, shut, wk, orphans,
                  crashed, tickC, nTicks, nStart >>

\* Get after its fetchGroup: the read of c.result and the return.
GetRead(k) ==
  /\ ~crashed
  /\ pc[k] = "read"
  /\ CanRLock(mu)
  /\ get' = [get EXCEPT ![k] =
               [Returned(get[k].name, TRUE, get[k].decode,
                         GetResult(get[k].name, get[k].decode))
                  EXCEPT !.seq = get[k].seq,
                         !.from = result[get[k].name].seq]]
  /\ pc' = [pc EXCEPT ![k] = "idle"]
  /\ UNCHANGED xcrawler
  /\ UNCHANGED << result, mu, sem, semClosed, cancelled, shut, fg, wk, orphans,
                  crashed, tickC, nTicks, nStart, nGets >>

\* ------------------------------------------------------- RetryRoundTripper
\* An error is the set of the errors joined in it; the empty set is nil.
\* A response is its status code; 0 is no response.
\* What rrt.next.RoundTrip answers with.
Responses == {200, 404, 500}

\* ctx.Err() of a context that is done.
CtxErr(ctx) == IF ctx = "canceled" THEN "Canceled" ELSE "DeadlineExceeded"

\* An int64 is the sequence of its eight bytes, the lowest first, in two's
\* complement; the arithmetic on it wraps as Go's does.
Int64Bytes == 8
ByteBase == 256
MaxUint8 == 255

RECURSIVE MulCarry(_, _, _)
MulCarry(x, k, i) ==
  IF i = 0 THEN 0 ELSE (x[i] * k + MulCarry(x, k, i - 1)) \div ByteBase

\* x * k in the width of x, for a small k >= 0.
Mul(x, k) ==
  [i \in 1..Len(x) |-> (x[i] * k + MulCarry(x, k, i - 1)) % ByteBase]

\* 1 << count in a width of n bytes: 0 when count is not below the width.
ShiftOne(count, n) ==
  [i \in 1..n |-> IF i = (count \div 8) + 1 THEN 2 ^ (count % 8) ELSE 0]

Negative(x) == x[Len(x)] >= ByteBase \div 2

RECURSIVE UnsignedLess(_, _, _)
UnsignedLess(a, b, i) ==
  IF i = 0 THEN FALSE
  ELSE IF a[i] # b[i] THEN a[i] < b[i]
  ELSE UnsignedLess(a, b, i - 1)

\* a < b for two signed integers of one width.
Less(a, b) ==
  IF Negative(a) # Negative(b) THEN Negative(a)
  ELSE UnsignedLess(a, b, Len(a))

Zero64 == [i \in 1..Int64Bytes |-> 0]

\* time.Millisecond, in nanoseconds.
Millisecond == 1000000

offset == 20

\* A calcDelay in integers wide enough for every attempt.
WideBytes == 40
calcDelayWide(attempt) ==
  IF attempt = 0 THEN [i \in 1..WideBytes |-> 0]
  ELSE Mul(Mul(ShiftOne(attempt - 1, WideBytes), offset), Millisecond)

\* calcDelay: a time.Duration, an int64 of nanoseconds.
calcDelay(attempt) ==
  IF attempt = 0 THEN Zero64
  ELSE Mul(Mul(ShiftOne(attempt - 1, Int64Bytes), offset), Millisecond)

\* A check that asks for a retry from 400 on.
retryClientError(resp) == IF resp < 400 THEN {} ELSE {"status"}

\* retryInternalServerError: nil below 500, an error from 500 on.
StatusOK == 200
StatusInternalServerError == 500
retryInternalServerError(resp) ==
  IF resp < StatusInternalServerError THEN {} ELSE {"status"}

\* A stopRetry that forgets the error of a retryable response.
stopRetryNoCause(err, resp) ==
  IF err # {}
  THEN IF "Canceled" \in err THEN [stop |-> TRUE, err |-> err, close |-> FALSE]
       ELSE [stop |-> FALSE, err |-> err, close |-> FALSE]
  ELSE IF retryInternalServerError(resp) # {}
  THEN [stop |-> FALSE, err |-> {}, close |-> TRUE]
  ELSE [stop |-> TRUE, err |-> {}, close |-> FALSE]

\* stopRetry: an error stops the loop only when it is context.Canceled; a
\* response stops it unless retryCheck gives an error, and then its body
\* is closed.
stopRetry(err, resp) ==
  IF err # {}
  THEN IF "Canceled" \in err THEN [stop |-> TRUE, err |-> err, close |-> FALSE]
       ELSE [stop |-> FALSE, err |-> err, close |-> FALSE]
  ELSE LET retryErr == retryInternalServerError(resp)
       IN  IF retryErr # {}
           THEN [stop |-> FALSE, err |-> retryErr, close |-> TRUE]
           ELSE [stop |-> TRUE, err |-> {}, close |-> FALSE]

\* A loop that makes one turn too many.
InRangeInclusive(i, maxRetries) == i <= maxRetries

\* for i := range rrt.maxRetries
InRange(i, maxRetries) == i < maxRetries

\* A RoundTrip that never closes the body of a retryable response.
AfterDoLeak(t, resp, err) ==
  LET r == stopRetry(err, resp)
  IN  IF r.stop
      THEN [t EXCEPT !.pc = "done", !.resp = resp, !.err = r.err,
                     !.ret = [resp |-> resp, err |-> r.err]]
      ELSE [t EXCEPT !.pc = "loop", !.i = @ + 1, !.resp = resp,
                     !.err = r.err]

\* RoundTrip from the return of rrt.do on: stopRetry, then the return or the
\* next turn of the loop.
AfterDo(t, resp, err) ==
  LET r == stopRetry(err, resp)
  IN  IF r.stop
      THEN [t EXCEPT !.pc = "done", !.resp = resp, !.err = r.err,
                     !.ret = [resp |-> resp, err |-> r.err]]
      ELSE [t EXCEPT !.pc = "loop", !.i = @ + 1, !.resp = resp,
                     !.err = r.err,
                     !.tries = IF r.close
                               THEN [t.tries EXCEPT ![Len(t.tries)].closed =
                                                      @ + 1]
                               ELSE t.tries]

\* RoundTrip is called with a request whose context is live or done.
RoundTripCall(m, c) ==
  /\ trip.pc = "idle"
  /\ trip' = [NoTrip EXCEPT !.pc = "loop", !.maxRetries = m, !.ctx = c]
  /\ UNCHANGED xretry

\* The head of the loop: the next attempt, which begins in do with
\* delay := rrt.delayStrategy(i), or the return after the last.
LoopNext ==
  /\ trip.pc = "loop"
  /\ trip' = IF InRange(trip.i, trip.maxRetries)
             THEN [trip EXCEPT !.pc = "select",
                               !.delay = calcDelay(trip.i)]
             ELSE [trip EXCEPT !.pc = "done",
                               !.ret = [resp |-> 0,
                                        err |-> {"ErrMaxRetries"} \cup trip.err]]
  /\ UNCHANGED xretry

\* do: case <-ctx.Done(): return nil, ctx.Err().
DoCtxDone ==
  /\ trip.pc = "select"
  /\ trip.ctx # "live"
  /\ trip' = AfterDo(trip, 0, {CtxErr(trip.ctx)})
  /\ UNCHANGED xretry

\* do: case <-time.After(delay). With no delay the timer is ready when
\* the select starts, and the select may take it over a done context.
DoTimer ==
  /\ trip.pc = "select"
  /\ trip.ctx = "live" \/ ~Less(Zero64, trip.delay)
  /\ trip' = [trip EXCEPT !.pc = "call"]
  /\ UNCHANGED xretry

\* The call of rrt.next.RoundTrip and what it gave are recorded.
Called(t, resp, err) ==
  [t EXCEPT !.calls = @ + 1, !.late = IF t.ctx = "live" THEN @ ELSE @ + 1,
            !.tries = Append(@, [resp |-> resp, err |-> err, closed |-> 0])]

\* do: rrt.next.RoundTrip(req) answers with a response.
TransportResp(status) ==
  /\ trip.pc = "call"
  /\ trip' = AfterDo(Called(trip, status, {}), status, {})
  /\ UNCHANGED xretry

\* do: rrt.next.RoundTrip(req) fails with an error of its own, or, when the
\* context is done, with the context's error; do joins it to ErrRequest.
TransportErr(e) ==
  /\ trip.pc = "call"
  /\ e = "ctxerr" => trip.ctx # "live"
  /\ LET err == {"ErrRequest", IF e = "ctxerr" THEN CtxErr(trip.ctx) ELSE e}
     IN  trip' = AfterDo(Called(trip, 0, err), 0, err)
  /\ UNCHANGED xretry

\* The request's context is cancelled, or its deadline passes.
CtxFire(cause) ==
  /\ trip.pc \in {"loop", "select", "call"}
  /\ trip.ctx = "live"
  /\ trip' = [trip EXCEPT !.ctx = cause]
  /\ UNCHANGED xretry

\* ------------------------------------------------------- fetchSubscription
\* fetchSubscription begins: fetchLocalSubscription starts the goroutine
\* that opens the file and goes to its select; fetchURLSubscription goes
\* to c.client.Do.
FetchStart(local) ==
  /\ ft.pc = "idle"
  /\ trip.pc = "idle"
  /\ ft' = [NoFetch EXCEPT !.pc = IF local THEN "select" ELSE "do",
                           !.local = local,
                           !.opener = IF local THEN "opening" ELSE "none"]
  /\ UNCHANGED << xfetch, trip >>

\* The goroutine of fetchLocalSubscription: fd, err = os.Open(fileName);
\* close(done).
OpenDone(ok) ==
  /\ ft.opener = "opening"
  /\ ft' = [ft EXCEPT !.opener = IF ok THEN "opened" ELSE "failed"]
  /\ UNCHANGED << xfetch, trip >>

\* The context of the fetch is done: the crawler is cancelled, or the
\* timeout of the subscription is over.
FetchCtxFire(cause) ==
  /\ ft.pc = "select"
  /\ ft.ctx = "live"
  /\ ft' = [ft EXCEPT !.ctx = cause]
  /\ UNCHANGED << xfetch, trip >>

\* fetchLocalSubscription, case <-done: the error of the open, or the
\* file as the reader.
SelectDone ==
  /\ ft.pc = "select"
  /\ ft.opener \in {"opened", "failed"}
  /\ ft' = IF ft.opener = "failed"
           THEN [ft EXCEPT !.pc = "done", !.error = "fetch"]
           ELSE [ft EXCEPT !.pc = "read", !.reader = "file"]
  /\ UNCHANGED << xfetch, trip >>

\* fetchLocalSubscription, case <-ctx.Done(): err = c.ctx.Err(), which is
\* nil unless the crawler was cancelled; fd.Close() on the fd the
\* goroutine has stored by now, and stored is what this goroutine sees of
\* it: nothing orders the read after the write. A nil fd is not closed.
SelectCtx(stored) ==
  /\ ft.pc = "select"
  /\ ft.ctx # "live"
  /\ stored => ft.opener = "opened"
  /\ ft' = [ft EXCEPT !.pc = "done", !.error = "fetch",
                      !.ctxerr = (ft.ctx = "canceled"),
                      !.fclosed = IF stored THEN @ + 1 ELSE @]
  /\ UNCHANGED << xfetch, trip >>

\* fetchURLSubscription: c.client.Do(req), with the retries of c.client.
ClientDo(m) == ft.pc = "do" /\ RoundTripCall(m, "live")

\* c.client.Do has returned: the error, or the body of the response as the
\* reader.
ClientDone ==
  /\ ft.pc = "do"
  /\ trip.pc = "done"
  /\ ft' = IF trip.ret.err # {}
           THEN [ft EXCEPT !.pc = "done", !.error = "fetch",
                           !.ctxerr = ({"Canceled", "DeadlineExceeded"}
                                         \cap trip.ret.err # {})]
           ELSE [ft EXCEPT !.pc = "read", !.reader = "body"]
  /\ UNCHANGED << xfetch, trip >>

\* fetchSubscription with a reader: a status other than 200 or the
\* outcome of readSubscription, and with the return the deferred
\* reader.Close().
ReadClose(out) ==
  /\ ft.pc = "read"
  /\ out \in {"ok", "read"}
  /\ LET status == IF ft.reader = "body" THEN trip.ret.resp ELSE StatusOK
     IN  ft' = [ft EXCEPT !.pc = "done",
                          !.error = IF status # StatusOK THEN "status"
                                    ELSE IF out = "ok" THEN "nil" ELSE out,
                          !.fclosed = IF ft.reader = "file" THEN @ + 1 ELSE @,
                          !.rclosed = IF ft.reader = "body" THEN @ + 1 ELSE @]
  /\ UNCHANGED << xfetch, trip >>

\* ------------------------------------------------------------------ limiter
\* The check of runLimiter with only the rate looked at.
limiterOffByRate(rate, burst) == rate = 0

\* runLimiter: no limiter is made when the rate or the burst is zero.
limiterOff(rate, burst) == rate = 0 \/ burst = 0

\* runLimiter: without a limiter the done channel is closed at once; with
\* one, NewIPRateLimiter and Cleanup, which starts the cleanup goroutine.
runLimiter(rate, burst) ==
  /\ lim.pc = "new"
  /\ lim' = IF limiterOff(rate, burst)
            THEN [lim EXCEPT !.pc = "off", !.rate = rate, !.burst = burst,
                             !.done = TRUE]
            ELSE [lim EXCEPT !.pc = "on", !.rate = rate, !.burst = burst,
                             !.task = "run"]
  /\ UNCHANGED xlimiter

\* NewTokenBucket: a full bucket, last refilled now.
NewTokenBucket(maxTokens, now) == [tokens |-> maxTokens * Interval, last |-> now]

\* A limiter for which no key is excluded.
IsExcludedNever(key) == FALSE

\* GetBucket: the key is in irl.excluded.
IsExcluded(key) == key \in Excluded

\* GetBucket(ip).Allow() begins. For an excluded key GetBucket gives the
\* ignoreLimitBucket, whose Allow is true; else it reads irl.buckets under
\* the read lock and goes on to getOrCreateBucket when there is no entry.
GetBucket(p, key) ==
  /\ lim.pc = "on"
  /\ lim.cl[p].pc = "idle"
  /\ lim.nAllow < MaxAllows
  /\ lim' = IF IsExcluded(key)
            THEN [lim EXCEPT !.nAllow = @ + 1,
                             !.cl[p] = [pc |-> "idle", key |-> key, b |-> 0,
                                        ok |-> "true"]]
            ELSE [lim EXCEPT !.nAllow = @ + 1,
                             !.cl[p] = [pc |-> IF lim.buckets[key] = 0
                                               THEN "create" ELSE "allow",
                                        key |-> key, b |-> lim.buckets[key],
                                        ok |-> "none"]]
  /\ UNCHANGED xlimiter

\* getOrCreateBucket, under the write lock: the entry if there is one by
\* now, else a new bucket put into the map.
getOrCreateBucket(p) ==
  /\ lim.cl[p].pc = "create"
  /\ LET key == lim.cl[p].key
     IN  lim' = IF lim.buckets[key] # 0
                THEN [lim EXCEPT !.cl[p].pc = "allow",
                                 !.cl[p].b = lim.buckets[key]]
                ELSE [lim EXCEPT !.heap = Append(@, NewTokenBucket(lim.burst,
                                                                   lim.now)),
                                 !.buckets[key] = Len(lim.heap) + 1,
                                 !.cl[p].pc = "allow",
                                 !.cl[p].b = Len(lim.heap) + 1]
  /\ UNCHANGED xlimiter

\* A refill that is not capped by maxTokens.
RefillUncapped(bucket, rate, burst, now) ==
  [tokens |-> bucket.tokens + (now - bucket.last) * rate, last |-> now]

\* TokenBucket.Allow up to the test: the refill for the time since the last
\* one, capped by maxTokens.
Refill(bucket, rate, burst, now) ==
  LET t == bucket.tokens + (now - bucket.last) * rate
  IN  [tokens |-> IF t < burst * Interval THEN t ELSE burst * Interval,
       last |-> now]

\* TokenBucket.Allow on the bucket the caller holds, under the bucket's
\* lock: refill, then false below one token, else take one and true.
Allowed(l, p) ==
  LET b == l.cl[p].b
      r == Refill(l.heap[b], l.rate, l.burst, l.now)
  IN  IF r.tokens < Interval
      THEN [l EXCEPT !.heap[b] = r, !.cl[p].pc = "idle", !.cl[p].ok = "false"]
      ELSE [l EXCEPT !.heap[b] = [r EXCEPT !.tokens = @ - Interval],
                     !.cl[p].pc = "idle", !.cl[p].ok = "true",
                     !.grants[l.cl[p].key] = Append(@, l.now)]

Allow(p) ==
  /\ lim.cl[p].pc = "allow"
  /\ lim' = Allowed(lim, p)
  /\ UNCHANGED xlimiter

\* A pass that also removes the buckets idle for just the clean interval.
IdleInclusive(l) ==
  {k \in LimKeys : l.buckets[k] # 0
                     /\ l.now - l.heap[l.buckets[k]].last >= CleanInterval}

\* The keys a pass of cleanupBuckets removes.
Idle(l) ==
  {k \in LimKeys : l.buckets[k] # 0
                     /\ l.now - l.heap[l.buckets[k]].last > CleanInterval}

\* case <-ticker.C: count = irl.cleanupBuckets(cleanupInterval), under the
\* write lock of the limiter.
cleanupBuckets ==
  /\ lim.task = "run"
  /\ lim' = [lim EXCEPT !.buckets = [k \in LimKeys |->
                                       IF k \in Idle(lim) THEN 0 ELSE @[k]],
                        !.count = Cardinality(Idle(lim))]
  /\ UNCHANGED xlimiter

\* The same calls and passes with their locks. GetBucket's read of the map
\* and getOrCreateBucket need irl, which a pass holds from its start to
\* its end.
IrlFree == lim.pass.pc = "idle"

LockedGetBucket(p, key) ==
  /\ IsExcluded(key) \/ IrlFree
  /\ GetBucket(p, key)

LockedGetOrCreateBucket(p) ==
  /\ IrlFree
  /\ getOrCreateBucket(p)

\* The holders of the lock of bucket b.
Holders(b) == {h \in lim.pass.held : h[2] = b}

\* TokenBucket.Allow: tb.Lock().
AllowLock(p) ==
  /\ lim.cl[p].pc = "allow"
  /\ Holders(lim.cl[p].b) = {}
  /\ lim' = [lim EXCEPT !.cl[p].pc = "locked",
                        !.pass.held = @ \cup {<< p, lim.cl[p].b >>}]
  /\ UNCHANGED xlimiter

\* An Allow that reads the map under irl.RLock() while it holds tb's lock.
AllowUnlockUnderMap(p) ==
  /\ lim.cl[p].pc = "locked"
  /\ IrlFree
  /\ lim' = [Allowed(lim, p) EXCEPT !.pass.held = @ \ {<< p, lim.cl[p].b >>}]
  /\ UNCHANGED xlimiter

\* TokenBucket.Allow from the lock on: the body and the deferred
\* tb.Unlock().
AllowUnlock(p) ==
  /\ lim.cl[p].pc = "locked"
  /\ lim' = [Allowed(lim, p) EXCEPT !.pass.held = @ \ {<< p, lim.cl[p].b >>}]
  /\ UNCHANGED xlimiter

\* case <-ticker.C: cleanupBuckets begins: irl.Lock(), now := time.Now().
EvictLock ==
  /\ lim.task = "run"
  /\ IrlFree
  /\ lim' = [lim EXCEPT !.pass = [pc |-> "scan",
                                  scan |-> {k \in LimKeys : lim.buckets[k] # 0},
                                  at |-> "", now |-> lim.now, removed |-> 0,
                                  held |-> lim.pass.held]]
  /\ UNCHANGED xlimiter

\* The range comes to a key, in any order: bucket.RLock(), which waits for
\* an Allow that holds the bucket.
EvictRLock(k) ==
  /\ lim.pass.pc = "scan"
  /\ k \in lim.pass.scan
  /\ Holders(lim.buckets[k]) = {}
  /\ lim' = [lim EXCEPT !.pass.pc = "read", !.pass.at = k,
                        !.pass.held = @ \cup {<< "cleanup", lim.buckets[k] >>}]
  /\ UNCHANGED xlimiter

\* lastUsed := bucket.lastRefillTime; bucket.RUnlock(); the delete when
\* the bucket was idle for more than the clean interval.
EvictRUnlock ==
  /\ lim.pass.pc = "read"
  /\ LET k == lim.pass.at
         b == lim.buckets[k]
         old == lim.pass.now - lim.heap[b].last > CleanInterval
     IN  lim' = [lim EXCEPT !.pass.pc = "scan", !.pass.at = "",
                           !.pass.scan = @ \ {k},
                           !.pass.held = @ \ {<< "cleanup", b >>},
                           !.pass.removed = IF old THEN @ + 1 ELSE @,
                           !.buckets[k] = IF old THEN 0 ELSE @]
  /\ UNCHANGED xlimiter

\* The range is over: return removedCount, with the deferred irl.Unlock().
EvictUnlock ==
  /\ lim.pass.pc = "scan"
  /\ lim.pass.scan = {}
  /\ lim' = [lim EXCEPT !.pass = [NoPass EXCEPT !.held = lim.pass.held],
                        !.count = lim.pass.removed]
  /\ UNCHANGED xlimiter

\* case <-ctx.Done(): the cleanup goroutine returns; ticker.Stop() and
\* close(done).
CleanupStop ==
  /\ lim.task = "run"
  /\ lim.ctx = "done"
  /\ lim' = [lim EXCEPT !.task = "stopped", !.done = TRUE]
  /\ UNCHANGED xlimiter

\* limiterCancel().
LimiterCancel ==
  /\ lim.pc = "on"
  /\ lim.ctx = "live"
  /\ lim' = [lim EXCEPT !.ctx = "done"]
  /\ UNCHANGED xlimiter

\* The clock goes on by one tick.
Elapse ==
  /\ lim.pc = "on"
  /\ lim.now < MaxTime
  /\ lim' = [lim EXCEPT !.now = @ + 1]
  /\ UNCHANGED xlimiter

\* ------------------------------------------------------------------ server
\* Run: the chain of handlers, from the outermost that can answer to the
\* innermost. LoggingMiddleware answers nothing; ErrorHandlingMiddleware
\* answers only a panic of what it wraps.
handlerValidationFirst ==
  << "ValidationMiddleware", "RateLimiterMiddleware", "HealthCheckMiddleware",
     "handleGroup" >>

handler ==
  << "RateLimiterMiddleware", "ValidationMiddleware", "HealthCheckMiddleware",
     "handleGroup" >>

StatusNotFound == 404
StatusMethodNotAllowed == 405
StatusTooManyRequests == 429

\* What a handler that needs no other goroutine answers to request r; 0 is
\* the call of the next handler, or for handleGroup the call of cr.Get.
ValidationMiddlewareAnyMethod(r) == 0

ValidationMiddleware(r) ==
  IF r.method # "GET" THEN StatusMethodNotAllowed ELSE 0
HealthCheckMiddleware(r) == IF r.path \in HealthPaths THEN StatusOK ELSE 0
handleGroupEndpoint(r) ==
  IF r.path \notin DOMAIN GroupsEndpoints THEN StatusNotFound ELSE 0

\* ServeHTTP from handler i of the chain on, up to the answer or to the
\* handler that has to wait: the limiter (unless ipLimiter is nil) or the
\* crawler.
RECURSIVE ServeHTTP(_, _)
ServeHTTP(r, i) ==
  LET h == handler[i]
      status == IF h = "ValidationMiddleware" THEN ValidationMiddleware(r)
                ELSE IF h = "HealthCheckMiddleware"
                THEN HealthCheckMiddleware(r)
                ELSE IF h = "handleGroup" THEN handleGroupEndpoint(r)
                ELSE 0
  IN  IF status # 0 THEN [pc |-> "respond", at |-> i, status |-> status]
      ELSE IF h = "RateLimiterMiddleware" /\ lim.pc = "on"
      THEN [pc |-> "limiter", at |-> i, status |-> 0]
      ELSE IF h = "handleGroup" THEN [pc |-> "get", at |-> i, status |-> 0]
      ELSE ServeHTTP(r, i + 1)

\* The response to r as it is written.
Response(r, status, body) ==
  [status |-> status, body |-> IF status = StatusOK THEN body ELSE <<>>,
   method |-> r.method, path |-> r.path, force |-> r.force]

\* The handler goroutine k after ServeHTTP got to w: it has answered and
\* is done, or it waits.
Served(k, r, w) ==
  IF w.pc = "respond"
  THEN [srv EXCEPT !.req[k] = NoRequest,
                   !.resp[k] = Response(r, w.status, <<>>),
                   !.nResp = @ + 1]
  ELSE [srv EXCEPT !.req[k] = [r EXCEPT !.pc = w.pc, !.at = w.at]]

\* The server accepts a request and gives it to a handler goroutine.
HttpAccept(k, key, method, path, force) ==
  /\ ~crashed
  /\ srv.state = "listening"
  /\ srv.req[k].pc = "idle"
  /\ srv.nReq < MaxReqs
  /\ path \in DOMAIN GroupsEndpoints => srv.nGroup < MaxGets
  /\ LET r == [pc |-> "new", at |-> 0, key |-> key, method |-> method,
               path |-> path, force |-> force, n |-> nGets[k]]
         s == Served(k, r, ServeHTTP(r, 1))
     IN  srv' = [s EXCEPT !.nReq = @ + 1,
                          !.nGroup = IF path \in DOMAIN GroupsEndpoints
                                     THEN @ + 1 ELSE @]
  /\ lim' = [lim EXCEPT !.cl[k] = NoCall]
  /\ UNCHANGED << cvars, xserver >>

\* RateLimiterMiddleware: ipLimiter.GetBucket(remoteAddress(r)).
LimiterGetBucket(k) ==
  /\ srv.req[k].pc = "limiter"
  /\ lim.cl[k] = NoCall
  /\ GetBucket(k, srv.req[k].key)

\* RateLimiterMiddleware after Allow: Too Many Requests, or the next
\* handler.
RateLimiterMiddleware(k) ==
  /\ ~crashed
  /\ srv.req[k].pc = "limiter"
  /\ lim.cl[k].pc = "idle"
  /\ lim.cl[k].ok # "none"
  /\ LET r == srv.req[k]
     IN  srv' = IF lim.cl[k].ok = "false"
                THEN Served(k, r, [pc |-> "respond", at |-> r.at,
                                   status |-> StatusTooManyRequests])
                ELSE Served(k, r, ServeHTTP(r, r.at + 1))
  /\ UNCHANGED << cvars, xserver, lim >>

\* handleGroup: cr.Get(group.Name, force, decode).
HandleGroupGet(k) ==
  /\ srv.req[k].pc = "get"
  /\ nGets[k] = srv.req[k].n
  /\ GetCall(k, GroupsEndpoints[srv.req[k].path], srv.req[k].force, FALSE)

\* handleGroup after cr.Get: Internal Server Error for an error, else the
\* data. A panic of Get ends in the recover of ErrorHandlingMiddleware,
\* which answers Internal Server Error too.
handleGroup(k) ==
  /\ ~crashed
  /\ srv.req[k].pc = "get"
  /\ nGets[k] > srv.req[k].n
  /\ pc[k] = "idle"
  /\ srv' = [srv EXCEPT !.req[k] = NoRequest,
                        !.resp[k] = Response(srv.req[k],
                                             IF get[k].status = "ok"
                                             THEN StatusOK
                                             ELSE StatusInternalServerError,
                                             get[k].body),
                        !.nResp = @ + 1]
  /\ UNCHANGED << cvars, xserver, lim >>

\* Run up to srv.ListenAndServe(): runLimiter, cr.Run(), the goroutine that
\* waits for the signal, the listener.
ServerRunLimiter(rate, burst) == srv.state = "new" /\ runLimiter(rate, burst)
ServerRunCrawler == srv.state = "new" /\ lim.pc # "new" /\ Run
ListenAndServe ==
  /\ ~crashed
  /\ srv.state = "new"
  /\ lim.pc # "new"
  /\ \A g \in GroupNames : pc[g] # "new"
  /\ srv' = [srv EXCEPT !.state = "listening"]
  /\ UNCHANGED << cvars, xserver, lim >>

\* sigint := make(chan os.Signal, 1)
SigintCap == 1

\* The goroutine that waits for the signal has been started.
Started == lim.pc # "new" /\ \A g \in GroupNames : pc[g] # "new"

\* ListenAndServe fails (the address cannot be bound): Run goes on to
\* sigint <- os.Interrupt.
ListenFail ==
  /\ ~crashed
  /\ srv.state = "new"
  /\ Started
  /\ srv' = [srv EXCEPT !.state = "failed", !.main = "send"]
  /\ UNCHANGED << cvars, xserver, lim >>

\* signal.Notify(sigint, signals...): a configured signal is delivered to
\* the channel, or dropped when the channel is full.
Notify ==
  /\ ~crashed
  /\ Started
  /\ srv.state \notin {"returned", "gone"}
  /\ srv.nSig < MaxSignals
  /\ srv' = [srv EXCEPT !.nSig = @ + 1,
                        !.sigint = IF @ < SigintCap THEN @ + 1 ELSE @]
  /\ UNCHANGED << cvars, xserver, lim >>

\* sigint <- os.Interrupt, once the channel has room.
MainSend ==
  /\ ~crashed
  /\ srv.main = "send"
  /\ srv.sigint < SigintCap
  /\ srv' = [srv EXCEPT !.main = "wait", !.sigint = @ + 1]
  /\ UNCHANGED << cvars, xserver, lim >>

\* <-sigint, of a signal that is in the channel.
SigintReceive ==
  /\ ~crashed
  /\ Started
  /\ srv.sd = "wait"
  /\ srv.sigint > 0
  /\ srv' = [srv EXCEPT !.sd = "crawler", !.sigint = @ - 1]
  /\ UNCHANGED << cvars, xserver, lim >>

\* A signal is delivered while the server listens and the goroutine
\* receives it at once: <-sigint, the goroutine goes on to cr.Shutdown().
Signal ==
  /\ ~crashed
  /\ srv.state = "listening"
  /\ srv.sd = "wait"
  /\ srv' = [srv EXCEPT !.sd = "crawler"]
  /\ UNCHANGED << cvars, xserver, lim >>

CrawlerShutdownCancel == srv.sd = "crawler" /\ ShutdownCancel
CrawlerShutdownClose == srv.sd = "crawler" /\ ShutdownClose

\* cr.Shutdown() has returned; srv.Shutdown(shutdownCtx) closes the
\* listener.
SrvShutdown ==
  /\ ~crashed
  /\ srv.sd = "crawler"
  /\ shut = "closed"
  /\ srv' = [srv EXCEPT !.sd = "server", !.state = "closing"]
  /\ UNCHANGED << cvars, xserver, lim >>

Busy(s) == {k \in Clients : s.req[k].pc # "idle"}

\* srv.Shutdown returns, with nil when no handler is left, with the error
\* of shutdownCtx after serverTimeout; close(serverStopped).
SrvShutdownReturn(timeout) ==
  /\ ~crashed
  /\ srv.sd = "server"
  /\ timeout <=> Busy(srv) # {}
  /\ srv' = [srv EXCEPT !.sd = "done", !.state = "stopped",
                        !.timedOut = timeout]
  /\ UNCHANGED << cvars, xserver, lim >>

\* <-serverStopped; limiterCancel().
ServerLimiterCancel == srv.state = "stopped" /\ LimiterCancel

\* A Run that returns after limiterCancel() without the wait for
\* limiterDone.
RunReturnNoWait ==
  /\ ~crashed
  /\ srv.state = "stopped"
  /\ srv.main # "send"
  /\ lim.pc = "on" => lim.ctx = "done"
  /\ srv' = [srv EXCEPT !.state = "returned"]
  /\ UNCHANGED << cvars, xserver, lim >>

\* <-limiterDone; Run returns.
RunReturn ==
  /\ ~crashed
  /\ srv.state = "stopped"
  /\ srv.main # "send"
  /\ lim.done
  /\ lim.pc = "on" => lim.ctx = "done"
  /\ srv' = [srv EXCEPT !.state = "returned"]
  /\ UNCHANGED << cvars, xserver, lim >>

\* -------------------------------------------------- the recovery of panics
\* The status codes an inner handler sets, and the calls it may make.
Codes == {StatusOK, StatusNotFound, StatusInternalServerError}
MaxOps == 3
\* len("Internal Server Error\n"), what http.Error writes.
ErrorLen == 22

\* wrapResponseWriter
wrapResponseWriter ==
  [wroteHeader |-> FALSE, status |-> StatusOK, written |-> 0]

\* http.ResponseWriter.WriteHeader: the first call sends the header; a
\* later one is superfluous and changes nothing.
UnderWriteHeader(u, code) ==
  IF u.status # 0 THEN u ELSE [u EXCEPT !.status = code]

\* http.ResponseWriter.Write: sends the header with 200 when none was sent.
UnderWrite(u, n) ==
  [UnderWriteHeader(u, StatusOK) EXCEPT !.body = @ + n]

\* A responseWriter.WriteHeader that takes every call.
WriteHeaderAgain(w, code) ==
  [w EXCEPT !.rw.status = code, !.rw.wroteHeader = TRUE,
            !.under = UnderWriteHeader(w.under, code)]

\* responseWriter.WriteHeader: nothing when the header was written; else
\* the status is kept and the call goes to the wrapped writer.
WriteHeader(w, code) ==
  IF w.rw.wroteHeader THEN w
  ELSE [w EXCEPT !.rw.status = code, !.rw.wroteHeader = TRUE,
                 !.under = UnderWriteHeader(w.under, code)]

\* responseWriter.Write
Write(w, n) ==
  LET h == IF ~w.rw.wroteHeader THEN WriteHeader(w, StatusOK) ELSE w
  IN  [h EXCEPT !.under = UnderWrite(h.under, n), !.rw.written = @ + n]

\* http.Error(w, "Internal Server Error", code)
Error(w, code) == Write(WriteHeader(w, code), ErrorLen)

\* LoggingMiddleware up to next.ServeHTTP(wrappedWriter, r), and
\* ErrorHandlingMiddleware up to next.ServeHTTP(w, r).
LoggingServe ==
  /\ hw.pc = "idle"
  /\ hw' = [hw EXCEPT !.pc = "next", !.rw = wrapResponseWriter]
  /\ UNCHANGED xrecover

\* The inner handler calls w.WriteHeader(code).
NextWriteHeader(code) ==
  /\ hw.pc = "next"
  /\ Len(hw.ops) < MaxOps
  /\ hw' = [WriteHeader(hw, code) EXCEPT !.ops = Append(@, code)]
  /\ UNCHANGED xrecover

\* The inner handler calls w.Write with n bytes.
NextWrite(n) ==
  /\ hw.pc = "next"
  /\ Len(hw.ops) < MaxOps
  /\ hw' = [Write(hw, n) EXCEPT !.ops = Append(@, 0)]
  /\ UNCHANGED xrecover

\* The inner handler returns; the deferred function finds no panic.
NextReturn ==
  /\ hw.pc = "next"
  /\ hw' = [hw EXCEPT !.pc = "returned"]
  /\ UNCHANGED xrecover

\* The inner handler panics.
NextPanic ==
  /\ hw.pc = "next"
  /\ hw' = [hw EXCEPT !.pc = "panic", !.panicked = TRUE,
                      !.atPanic = hw.under.status]
  /\ UNCHANGED xrecover

\* ErrorHandlingMiddleware, the deferred function with a panic: it is
\* recovered and answered by http.Error.
Recover ==
  /\ hw.pc = "panic"
  /\ hw' = [Error(hw, StatusInternalServerError) EXCEPT !.pc = "returned"]
  /\ UNCHANGED xrecover

\* LoggingMiddleware after next.ServeHTTP: the status of the wrapper is
\* logged; the server ends the response, with 200 when no header was sent.
LoggingReturn ==
  /\ hw.pc = "returned"
  /\ hw' = [hw EXCEPT !.pc = "done", !.logged = hw.rw.status,
                      !.under = UnderWriteHeader(hw.under, StatusOK)]
  /\ UNCHANGED xrecover

\* ------------------------------------------------------------------ Filter
\* s.Filter(subURLs) is called and returns.
FilterCall(prefixes, subURLs) ==
  /\ flt.pc = "idle"
  /\ flt' = [pc |-> "done", prefixes |-> prefixes, subURLs |-> subURLs,
             out |-> Filter(prefixes, subURLs)]
  /\ UNCHANGED xfilter

\* ------------------------------------------------------------------- Specs
\* The lists of at most n tokens.
URLLists(n) == UNION {[1..m -> FilterURLs] : m \in 0..n}

\* Calls of Filter with every list of tokens and every set of prefixes.
NextFilter ==
  \E prefixes \in SUBSET FilterPrefixes, subURLs \in URLLists(MaxURLs) :
    FilterCall(prefixes, subURLs)

SpecFilter == Init /\ [][NextFilter]_vars

\* The steps of a fetchGroup and of its workers.
Refresh ==
  \/ \E c \in Callers : Spawn(c)
  \/ \E c \in Callers, j \in SubIdx, out \in Outcomes : WorkerFinish(c, j, out)
  \/ \E c \in Callers, j \in SubIdx : WorkerPanicSend(c, j)
  \/ \E c \in Callers : Lock(c)
  \/ \E c \in Callers : Publish(c)
  \/ OrphanRelease
  \/ OrphanCrash

\* A crawler on which Run is not called, as in the tests of Get: the
\* refreshes are the forced ones of the clients.
NextGet ==
  \/ Refresh
  \/ \E k \in Clients, name \in GroupNames \cup {UnknownGroup},
        force \in BOOLEAN, decode \in BOOLEAN : GetCall(k, name, force, decode)
  \/ \E k \in Clients : GetRead(k)

SpecGet == Init /\ [][NextGet]_vars

\* The forced refreshes of the clients, with the exit of a worker in its
\* two steps.
NextSlots ==
  \/ \E c \in Callers : Spawn(c)
  \/ \E c \in Callers, j \in SubIdx, out \in Outcomes : WorkerSend(c, j, out)
  \/ \E c \in Callers, j \in SubIdx : WorkerRelease(c, j)
  \/ \E c \in Callers, j \in SubIdx : WorkerPanicSend(c, j)
  \/ \E c \in Callers : Lock(c)
  \/ \E c \in Callers : Publish(c)
  \/ OrphanRelease
  \/ OrphanReturn
  \/ OrphanCrash
  \/ \E k \in Clients, name \in GroupNames : GetCall(k, name, TRUE, FALSE)
  \/ \E k \in Clients : GetRead(k)

SpecSlots == Init /\ [][NextSlots]_vars

\* A crawler that runs and is shut down, with no caller of Get.
NextRun ==
  \/ Refresh
  \/ Run
  \/ \E g \in GroupNames : SchedStart(g)
  \/ \E g \in GroupNames : Tick(g)
  \/ \E g \in GroupNames : SchedTick(g)
  \/ \E g \in GroupNames : SchedStop(g)
  \/ ShutdownCancel
  \/ ShutdownClose

SpecRun == Init /\ [][NextRun]_vars

\* The same with the goroutines scheduled: a step that can be taken is not
\* put off for ever.
SpecRunFair == SpecRun /\ WF_vars(NextRun)

\* One RoundTrip call of the retrying transport.
NextRetry ==
  \/ \E m \in 0..MaxAttempts, c \in {"live", "canceled", "deadline"} :
       RoundTripCall(m, c)
  \/ LoopNext
  \/ DoCtxDone
  \/ DoTimer
  \/ \E status \in Responses : TransportResp(status)
  \/ \E e \in {"neterr", "ctxerr"} : TransportErr(e)
  \/ \E cause \in {"canceled", "deadline"} : CtxFire(cause)

SpecRetry == Init /\ [][NextRetry]_vars

\* One RoundTrip call with the largest maxRetries, every attempt of which
\* fails in the transport.
NextDelay ==
  \/ RoundTripCall(MaxUint8, "live")
  \/ LoopNext
  \/ DoTimer
  \/ TransportErr("neterr")

SpecDelay == Init /\ [][NextDelay]_vars

\* One fetchSubscription call, of a local file or of a URL.
NextFetch ==
  \/ \E local \in BOOLEAN : FetchStart(local)
  \/ \E ok \in BOOLEAN : OpenDone(ok)
  \/ \E cause \in {"canceled", "deadline"} : FetchCtxFire(cause)
  \/ SelectDone
  \/ \E stored \in BOOLEAN : SelectCtx(stored)
  \/ \E m \in 0..MaxAttempts : ClientDo(m)
  \/ LoopNext
  \/ DoCtxDone
  \/ DoTimer
  \/ \E status \in Responses : TransportResp(status)
  \/ \E e \in {"neterr", "ctxerr"} : TransportErr(e)
  \/ \E cause \in {"canceled", "deadline"} : CtxFire(cause)
  \/ ClientDone
  \/ \E out \in {"ok", "read"} : ReadClose(out)

SpecFetch == Init /\ [][NextFetch]_vars

\* The limiter with its callers and its cleanup goroutine.
NextLimiter ==
  \/ \E rate \in Rates, burst \in Bursts : runLimiter(rate, burst)
  \/ \E p \in LimCallers, key \in {"ka", "kx"} : GetBucket(p, key)
  \/ \E p \in LimCallers : getOrCreateBucket(p)
  \/ \E p \in LimCallers : Allow(p)
  \/ cleanupBuckets
  \/ CleanupStop
  \/ LimiterCancel
  \/ Elapse

SpecLimiter == Init /\ [][NextLimiter]_vars

\* A limiter that is on, asked by two callers for every key, and its
\* eviction passes.
NextEvict ==
  \/ runLimiter(1, 2)
  \/ \E p \in Clients, key \in LimKeys : GetBucket(p, key)
  \/ \E p \in Clients : getOrCreateBucket(p)
  \/ \E p \in Clients : Allow(p)
  \/ cleanupBuckets
  \/ Elapse

SpecEvict == Init /\ [][NextEvict]_vars

\* The same limiter with the locks of its calls and of its passes.
NextLocks ==
  \/ runLimiter(1, 2)
  \/ \E p \in Clients, key \in {"ka", "kx"} : LockedGetBucket(p, key)
  \/ \E p \in Clients : LockedGetOrCreateBucket(p)
  \/ \E p \in Clients : AllowLock(p)
  \/ \E p \in Clients : AllowUnlock(p)
  \/ EvictLock
  \/ \E k \in LimKeys : EvictRLock(k)
  \/ EvictRUnlock
  \/ EvictUnlock
  \/ Elapse

SpecLocks == Init /\ [][NextLocks]_vars

\* The crawler of the server: its schedulers' first refreshes and the
\* forced ones. The subscriptions answer; the periodic refreshes are left
\* out.
ServerCrawler ==
  \/ \E g \in GroupNames : SchedStart(g)
  \/ \E c \in Callers : Spawn(c)
  \/ \E c \in Callers, j \in SubIdx : WorkerFinish(c, j, "ok")
  \/ \E c \in Callers : Lock(c)
  \/ \E c \in Callers : Publish(c)

\* The steps of the handler goroutine k.
Handle(k) ==
  \/ LimiterGetBucket(k)
  \/ getOrCreateBucket(k)
  \/ Allow(k)
  \/ RateLimiterMiddleware(k)
  \/ HandleGroupGet(k)
  \/ GetRead(k)
  \/ handleGroup(k)

\* The server that listens, with the requests of its clients.
NextHttp ==
  \/ \E rate \in Rates, burst \in Bursts : ServerRunLimiter(rate, burst)
  \/ ServerRunCrawler
  \/ ListenAndServe
  \/ ServerCrawler
  \/ \E k \in HttpClients, method \in Methods, path \in Paths,
        force \in BOOLEAN :
       /\ force => method = "GET" /\ path \in DOMAIN GroupsEndpoints
       /\ HttpAccept(k, "ka", method, path, force)
  \/ \E k \in HttpClients : Handle(k)

SpecHttp == Init /\ [][NextHttp]_vars

\* The server that listens, with a limiter that is on and requests for a
\* health path and for a group, of either method, forced and not.
NextDeny ==
  \/ ServerRunLimiter(1, 2)
  \/ ServerRunCrawler
  \/ ListenAndServe
  \/ ServerCrawler
  \/ \E method \in Methods, path \in {"/ok", "/g2"}, force \in BOOLEAN :
       HttpAccept("k1", "ka", method, path, force)
  \/ Handle("k1")

SpecDeny == Init /\ [][NextDeny]_vars

\* The server from Run to its return, with requests of one client.
NextServer ==
  \/ \E rate \in Rates, burst \in Bursts : ServerRunLimiter(rate, burst)
  \/ ServerRunCrawler
  \/ ListenAndServe
  \/ ServerCrawler
  \/ \E g \in GroupNames : SchedStop(g)
  \/ \E c \in Callers : SpawnPanic(c)
  \/ OrphanRelease
  \/ OrphanCrash
  \/ \E path \in {"/ok", "/g1"}, force \in BOOLEAN :
       /\ force => path \in DOMAIN GroupsEndpoints
       /\ HttpAccept("k1", "ka", "GET", path, force)
  \/ Handle("k1")
  \/ Signal
  \/ CrawlerShutdownCancel
  \/ CrawlerShutdownClose
  \/ SrvShutdown
  \/ \E timeout \in BOOLEAN : SrvShutdownReturn(timeout)
  \/ ServerLimiterCancel
  \/ CleanupStop
  \/ RunReturn

SpecServer == Init /\ [][NextServer]_vars

\* Run with signals and with a ListenAndServe that may fail, and no
\* request.
NextSignals ==
  \/ \E rate \in Rates, burst \in Bursts : ServerRunLimiter(rate, burst)
  \/ ServerRunCrawler
  \/ ListenAndServe
  \/ ListenFail
  \/ Notify
  \/ MainSend
  \/ SigintReceive
  \/ ServerCrawler
  \/ \E g \in GroupNames : SchedStop(g)
  \/ CrawlerShutdownCancel
  \/ CrawlerShutdownClose
  \/ SrvShutdown
  \/ \E timeout \in BOOLEAN : SrvShutdownReturn(timeout)
  \/ ServerLimiterCancel
  \/ CleanupStop
  \/ RunReturn

SpecSignals == Init /\ [][NextSignals]_vars

\* Run from its start to its return, with a limiter that is asked for a
\* key and whose cleanup goroutine makes its passes until it is stopped.
NextStop ==
  \/ \E rate \in Rates, burst \in Bursts : ServerRunLimiter(rate, burst)
  \/ ServerRunCrawler
  \/ ListenAndServe
  \/ Signal
  \/ ServerCrawler
  \/ \E g \in GroupNames : SchedStop(g)
  \/ CrawlerShutdownCancel
  \/ CrawlerShutdownClose
  \/ SrvShutdown
  \/ SrvShutdownReturn(FALSE)
  \/ GetBucket("k1", "ka")
  \/ getOrCreateBucket("k1")
  \/ Allow("k1")
  \/ cleanupBuckets
  \/ Elapse
  \/ ServerLimiterCancel
  \/ CleanupStop
  \/ RunReturn

SpecStop == Init /\ [][NextStop]_vars

\* One request through LoggingMiddleware and ErrorHandlingMiddleware, with
\* an inner handler that writes, returns or panics.
NextRecover ==
  \/ LoggingServe
  \/ \E code \in Codes : NextWriteHeader(code)
  \/ \E n \in {1, 2} : NextWrite(n)
  \/ NextReturn
  \/ NextPanic
  \/ Recover
  \/ LoggingReturn

SpecRecover == Init /\ [][NextRecover]_vars

\* ================================================================== claims
\* What a fetch of the subscription that ends without error delivers.
Tokens(sub) == Filter(sub.prefixes, Fields(IF sub.encoded
                                           THEN B64Decode(sub.body).data
                                           ELSE sub.body))

RECURSIVE ConcatTokens(_, _)
ConcatTokens(subs, S) ==
  IF subs = <<>> THEN <<>>
  ELSE ConcatTokens(SubSeq(subs, 1, Len(subs) - 1), S)
       \o (IF Len(subs) \in S THEN Tokens(subs[Len(subs)]) ELSE <<>>)

\* encode_if_needed(join("\n", sort(concat(the token lists of S)))) for the
\* subscriptions of g with an index in S.
ArtifactOf(g, S) ==
  LET joined == Join(SortStrings(ConcatTokens(Groups[g].Subscriptions, S)), <<LF>>)
  IN  IF Groups[g].Encoded THEN B64Encode(joined) ELSE joined

\* The step in which the fetchGroup of c returns.
Completes(c) == c \in mu /\ pc'[c] = AfterFetch(c)

\* C1: whenever a refresh of a group completes, the bytes stored for the
\* group are the sorted, LF-joined (and, for an encoded group, base64-encoded)
\* tokens of exactly the subscriptions whose fetch returned no error.
C1_ArtifactOfSuccessful ==
  [][\A c \in Callers :
       Completes(c) =>
         result'[fg[c].grp].data =
           ArtifactOf(fg[c].grp, {j \in SubIdx : wk[c][j] \in Succeeded})]_vars

\* C2: a refresh stores once, when it returns, after it has collected
\* len(Subscriptions) results and every one of its workers has delivered:
\* what it stores is the merge of the results of all its subscriptions, and
\* the cache changes in no other step.
C2_FullResultSet ==
  [][/\ \A c \in Callers :
          Completes(c) =>
            /\ fg[c].got = NSubs(fg[c].grp)
            /\ \A j \in 1..NSubs(fg[c].grp) :
                 wk[c][j] \in Delivered
            /\ result'[fg[c].grp] =
                 [ok |-> TRUE,
                  data |-> prepareGroupResult(fg[c].urls,
                                              Groups[fg[c].grp].Encoded),
                  seq |-> fg[c].seq]
     /\ (result' # result /\ ~crashed') => \E c \in Callers : Completes(c)]_vars

\* C3: every worker delivers exactly one result: the results a refresh has
\* received are as many as its workers that have sent, no worker is left
\* behind a closed result channel, and none sends on it.
C3_ExactlyOneResult ==
  /\ \A c \in Callers :
       InFetch(c) =>
         fg[c].got + Len(fg[c].ch) =
           Cardinality({j \in SubIdx : wk[c][j] \in Delivered})
  /\ orphans = [hold |-> 0, free |-> 0, sent |-> 0]
  /\ ~crashed

\* The step in which the Get of client k returns.
Returns(k) == pc'[k] = "idle" /\ (pc[k] = "read" \/ nGets'[k] # nGets[k])

\* C4: a Get returns ErrNotFoundGroup exactly when the name is no group or
\* the group has no entry in the cache, and a forced Get of a group never
\* does: its own refresh has stored an entry, be it empty.
C4_NotFound ==
  [][\A k \in Clients :
       Returns(k) =>
         LET g == get'[k]
         IN  /\ (g.status = "notfound") <=>
                  (g.name \notin GroupNames \/ ~result[g.name].ok)
             /\ (g.name \in GroupNames /\ g.force) => g.status # "notfound"]_vars

\* A forced Get, the first call made, of the one-subscription group whose
\* fetch failed has returned the empty artifact.
C4_Witness ==
  \E k \in Clients :
    /\ pc[k] = "idle" /\ TotalGets = 1
    /\ get[k].name = "g2" /\ get[k].force
    /\ get[k].status = "ok" /\ get[k].body = <<>>
    /\ result["g2"].ok /\ result["g2"].data = <<>>

\* C5: a Get that finds an entry returns the bytes whose base64 encoding is
\* the entry when decode is asked for, the group is encoded and the entry is
\* not empty, and the entry itself otherwise; it returns a decode error only
\* for an entry that is no base64; and the step leaves the cache as it was.
C5_Decode ==
  [][\A k \in Clients :
       Returns(k) =>
         LET g == get'[k]
         IN  /\ result' = result
             /\ (g.name \in GroupNames /\ result[g.name].ok) =>
                  LET stored == result[g.name].data
                  IN  IF g.decode /\ Groups[g.name].Encoded /\ stored # <<>>
                      THEN \/ g.status = "ok" /\ B64Encode(g.body) = stored
                           \/ g.status = "decodeerr" /\ B64Decode(stored).err
                      ELSE g.status = "ok" /\ g.body = stored]_vars

\* A Get with decode of the encoded group has returned the decoded tokens.
C5_Witness ==
  \E k \in Clients :
    /\ pc[k] = "idle"
    /\ get[k].name = "g2" /\ get[k].decode
    /\ get[k].status = "ok" /\ get[k].body = <<97, LF, 98>>
    /\ result["g2"].data # get[k].body

C7_Scheduler ==
  [][\A g \in GroupNames :
       /\ Len(tickC'[g]) <= TickerCap
       /\ nStart'[g] + Len(tickC'[g]) <= 1 + nTicks'[g]
       /\ pc'[g] \in {"select", "fetchT", "stopped"} => nStart'[g] >= 1
       /\ (nStart'[g] # nStart[g] /\ ~crashed') =>
            /\ ~InFetch(g)
            /\ nStart'[g] = nStart[g] + 1
            /\ IF pc[g] = "start"
               THEN nStart[g] = 0 /\ nTicks[g] = 0
               ELSE tickC[g] # <<>> /\ tickC'[g] = Tail(tickC[g])
       /\ (InFetch(g) /\ nTicks'[g] # nTicks[g] /\ ~crashed') =>
            nStart'[g] = nStart[g] /\ fg'[g] = fg[g]]_vars

\* Three ticks, two of them during the refresh the first one started: one
\* is pending, one was dropped, and no further refresh has started.
C7_Witness ==
  \E g \in GroupNames :
    /\ pc[g] = "fetchT"
    /\ nTicks[g] = 3 /\ nStart[g] = 2 /\ Len(tickC[g]) = 1

\* The fetch workers that have been started and have not returned.
Alive ==
  Cardinality({w \in Callers \X SubIdx :
                 wk[w[1]][w[2]] \in {"run", "send2"} \cup Sent})
    + orphans.hold + orphans.free + orphans.sent

\* C8: the workers started and not yet returned are at most max_concurrent.
C8_WorkersBounded == Alive <= MaxConcurrent

\* C9: a RoundTrip call calls the transport at most maxRetries times; with
\* maxRetries = 0 it calls it never and returns ErrMaxRetries alone.
C9_AttemptsBounded ==
  /\ trip.calls <= trip.maxRetries
  /\ (trip.pc = "done" /\ trip.maxRetries = 0) =>
       trip.calls = 0 /\ trip.ret = [resp |-> 0, err |-> {"ErrMaxRetries"}]

\* Every attempt was made, errors and retryable responses among them, and
\* the loop ran out.
C9_Witness ==
  /\ trip.pc = "done"
  /\ trip.maxRetries >= 3 /\ trip.calls = trip.maxRetries
  /\ trip.ret.err = {"ErrMaxRetries", "status"}

\* C10: once the context of the request is done, no call of the transport
\* follows, and the first do that ends with the context's error (at its
\* wait or from the transport) ends RoundTrip with that error, not with
\* ErrMaxRetries after the turns that were left.
C10_CancelStops ==
  [][/\ trip.ctx # "live" => trip'.calls = trip.calls
     /\ (/\ trip.pc \in {"select", "call"}
         /\ trip'.err \cap {"Canceled", "DeadlineExceeded"} # {}) =>
          /\ trip'.pc = "done"
          /\ "ErrMaxRetries" \notin trip'.ret.err]_vars

\* What an attempt gave asks for a retry: an error of the transport that is
\* not the context's, or a response with a status from 500 on.
Retryable(o) == "neterr" \in o.err \/ o.resp >= 500

\* C11: the transport is called again only after an attempt that gave a
\* transport error other than the context's or a status >= 500; after such
\* an attempt RoundTrip does not return but goes to the next turn; a
\* response with a status below 500 is returned at once, with no error.
C11_RetryClassifier ==
  [][trip'.calls = trip.calls + 1 =>
       LET o == trip'.tries[Len(trip'.tries)]
       IN  /\ trip.tries # <<>> => Retryable(trip.tries[Len(trip.tries)])
           /\ Retryable(o) =>
                trip'.pc = "loop" /\ trip'.i = trip.i + 1
                  /\ trip'.ret = NoReturn
           /\ (o.err = {} /\ o.resp < 500) =>
                trip'.pc = "done" /\ trip'.ret = [resp |-> o.resp, err |-> {}]]_vars

\* The transport answered 500, 500, 200 and RoundTrip, with maxRetries 3,
\* returned the third response after three calls.
C11_Witness ==
  /\ trip.pc = "done" /\ trip.maxRetries = 3 /\ trip.calls = 3
  /\ [n \in 1..Len(trip.tries) |-> trip.tries[n].resp] = <<500, 500, 200>>
  /\ trip.ret = [resp |-> 200, err |-> {}]

C13_Excluded ==
  [][/\ \A k \in Excluded : lim'.buckets[k] = 0
     /\ \A p \in LimCallers :
          (lim'.nAllow = lim.nAllow + 1 /\ lim'.cl[p] # lim.cl[p]
             /\ lim'.cl[p].key \in Excluded) =>
            /\ lim'.cl[p].ok = "true" /\ lim'.cl[p].pc = "idle"
            /\ lim'.buckets = lim.buckets
            /\ lim'.heap = lim.heap]_vars

\* A call for the excluded key gave true while the bucket of the other key
\* had no token left.
C13_Witness ==
  \E p \in LimCallers :
    /\ lim.cl[p].key \in Excluded /\ lim.cl[p].ok = "true"
    /\ \E k \in LimKeys \ Excluded :
         lim.buckets[k] # 0 /\ lim.heap[lim.buckets[k]].tokens < Interval

\* The status the rules of the pipeline give to the response of handler k,
\* taken in their order: the limiter's denial, the method, the health
\* paths, the endpoint, then the answer of the crawler.
FirstRule(k) ==
  LET r == srv.resp[k]
  IN  IF lim.pc = "on" /\ lim.cl[k].ok = "false" THEN StatusTooManyRequests
      ELSE IF r.method # "GET" THEN StatusMethodNotAllowed
      ELSE IF r.path \in HealthPaths THEN StatusOK
      ELSE IF r.path \notin DOMAIN GroupsEndpoints THEN StatusNotFound
      ELSE IF get[k].status # "ok" THEN StatusInternalServerError
      ELSE StatusOK

C14_WitnessPost ==
  \E k \in HttpClients :
    /\ srv.req[k].pc = "idle"
    /\ srv.resp[k].method = "POST"
    /\ srv.resp[k].path = "/nope"
    /\ lim.cl[k].ok = "true"
    /\ srv.resp[k].status = StatusMethodNotAllowed

\* C15: on shutdown the server stops accepting and drains first; only then
\* is the crawler cancelled; only then is the limiter's cleanup cancelled;
\* and once the crawler is cancelled no request is accepted or served.
C15_ShutdownOrder ==
  [][/\ (cancelled' /\ ~cancelled) =>
          srv.state \in {"closing", "stopped"} /\ Busy(srv) = {}
     /\ (lim'.ctx = "done" /\ lim.ctx = "live") => shut = "closed"
     /\ (cancelled /\ ~crashed') =>
          srv'.nReq = srv.nReq /\ srv'.nResp = srv.nResp]_vars

\* C16: once the crawler's Shutdown and the server's Run have returned, no
\* scheduler, no worker of any refresh and no cleanup goroutine of the
\* limiter is running.
C16_NothingLeft ==
  (shut = "closed" /\ srv.state = "returned") =>
    /\ \A g \in GroupNames : pc[g] \in {"new", "stopped"}
    /\ Alive = 0
    /\ lim.task # "run"

\* C17: a Shutdown that was requested, also during a refresh, returns.
C17_ShutdownReturns == (shut = "waiting") ~> (shut = "closed")

\* C18: once the crawler's context is cancelled no scheduler starts a
\* refresh, not even for a tick that is waiting in the ticker's channel.
C18_NoRefreshAfterCancel ==
  [][(cancelled /\ ~crashed') => nStart' = nStart]_vars

\* What the fetch has opened: the bodies of the responses (by the number
\* of their call) and the file.
Bodies == {n \in 1..Len(trip.tries) : trip.tries[n].resp # 0}
IsReader(n) == ft.reader = "body" /\ n = Len(trip.tries)
BodyCloses(n) ==
  trip.tries[n].closed + (IF IsReader(n) THEN ft.rclosed ELSE 0)
OpenNow ==
  Cardinality({n \in Bodies : BodyCloses(n) = 0})
    + (IF ft.opener = "opened" /\ ft.fclosed = 0 THEN 1 ELSE 0)

\* C19: what a fetch opens is closed exactly once by the time the worker
\* is done, also the file of an open that the context overtook, and that
\* fetch ends with the error of the context; at most one body or file is
\* open at a time.
C19_ClosedOnce ==
  /\ OpenNow <= 1
  /\ \A n \in Bodies : BodyCloses(n) <= 1
  /\ ft.fclosed <= 1
  /\ (ft.pc = "done" /\ ft.opener # "opening") =>
       /\ OpenNow = 0
       /\ (ft.local /\ ft.ctx # "live" /\ ft.reader = "none"
             /\ ft.opener = "opened") => ft.ctxerr

\* C20 as stated: the limiter is off only when the rate and the burst are
\* both zero, and is active when exactly one of them is.
C20_OffOnlyBothZero ==
  lim.pc # "new" => (lim.pc = "off" <=> (lim.rate = 0 /\ lim.burst = 0))

\* C20 as amended: the limiter is off when the rate or the burst is zero,
\* and active only when both are set; when it is off there is no cleanup
\* goroutine, its done channel is closed from the start, Allow is never
\* called, no bucket is made and no request is answered 429.
C20_OffWhenEitherZero ==
  /\ lim.pc # "new" => (lim.pc = "off" <=> (lim.rate = 0 \/ lim.burst = 0))
  /\ lim.pc = "off" =>
       /\ lim.done /\ lim.task = "none" /\ lim.heap = <<>> /\ lim.nAllow = 0
       /\ \A k \in HttpClients : srv.resp[k].status # StatusTooManyRequests
\* With only the burst unset the limiter is off and every request was
\* answered.
C20_Witness ==
  /\ lim.pc = "off" /\ lim.rate # 0 /\ lim.burst = 0
  /\ srv.nResp = MaxReqs

\* The subscriptions of c's refresh whose urls the join has merged: their
\* worker delivered a result without error, and not into the buffer that
\* nobody reads once the join is over.
Merged(c) ==
  {j \in 1..NSubs(fg[c].grp) :
     /\ wk[c][j] \in Succeeded
     /\ \A n \in 1..Len(fg[c].ch) :
          fg[c].ch[n].subscription # Groups[fg[c].grp].Subscriptions[j].name}

\* C21: what a refresh publishes depends only on the set of results the
\* join has merged, not on the order in which the workers delivered them:
\* it is the artifact of these subscriptions taken in the order of the
\* configuration.
C21_OrderIndependent ==
  [][\A c \in Callers :
       Completes(c) =>
         result'[fg[c].grp].data = ArtifactOf(fg[c].grp, Merged(c))]_vars
\* A refresh of g1 is about to store what it prepared from the result of
\* s2 followed by that of s1.
C21_Witness ==
  \E c \in Callers :
    /\ c \in mu
    /\ fg[c].grp = "g1"
    /\ fg[c].urls = Tokens(SubS2) \o Tokens(SubS1)
    /\ fg[c].urls # Tokens(SubS1) \o Tokens(SubS2)

\* The subscriptions of c's group: all of them have been merged.
AllSubs(g) == 1..NSubs(g)

\* C22: a refresh that merges the results of all subscriptions of a group
\* whose entry already is the artifact of all of them leaves the entry as
\* it is; and a Get with decode of the encoded group that finds an entry
\* returns the bytes a non-encoded group with the same subscriptions stores
\* for the same results (the sorted tokens joined by LF), whose base64
\* encoding is the entry.
C22_RefreshIdempotent ==
  [][/\ \A c \in Callers :
          (/\ Completes(c)
           /\ Merged(c) = AllSubs(fg[c].grp)
           /\ result[fg[c].grp].ok
           /\ result[fg[c].grp].data = ArtifactOf(fg[c].grp, AllSubs(fg[c].grp)))
          => /\ result'[fg[c].grp].ok = result[fg[c].grp].ok
             /\ result'[fg[c].grp].data = result[fg[c].grp].data
     /\ \A k \in Clients :
          (/\ Returns(k)
           /\ get'[k].name \in GroupNames
           /\ get'[k].decode
           /\ Groups[get'[k].name].Encoded
           /\ result[get'[k].name].ok)
          => LET g == get'[k]
                 stored == result[g.name].data
                 subs == Groups[g.name].Subscriptions
             IN  /\ g.status = "ok"
                 /\ \E S \in SUBSET AllSubs(g.name) :
                      /\ stored = prepareGroupResult(ConcatTokens(subs, S), TRUE)
                      /\ g.body = prepareGroupResult(ConcatTokens(subs, S), FALSE)
                 /\ g.body = Join(SortStrings(Fields(g.body)), <<LF>>)
                 /\ B64Encode(g.body) = stored]_vars

\* Two forced refreshes of the encoded group have returned, one of them with
\* decode: it gave the sorted tokens "a", "b" of the subscription whose
\* decoded body lists "b" before "a", and their encoding is the entry.
C22_Witness ==
  /\ \A k \in Clients :
       /\ pc[k] = "idle"
       /\ get[k].name = "g2" /\ get[k].force /\ get[k].status = "ok"
  /\ \E k \in Clients :
       /\ get[k].decode
       /\ get[k].body = <<97, LF, 98>>
       /\ B64Decode(SubS3.body).data = <<98, 32, 97, LF>>
       /\ result["g2"].data = B64Encode(get[k].body)
       /\ result["g2"].data # get[k].body

\* C23: a panic of the inner handler is always taken by the recover of
\* ErrorHandlingMiddleware (the next step answers and returns to
\* LoggingMiddleware), and when the request is done after a panic the status
\* sent, which is also the one logged, is 500 when no header was sent before
\* the panic and the status sent before the panic otherwise.
C23_PanicRecovered ==
  /\ hw.pc \in {"idle", "next", "panic", "returned", "done"}
  /\ hw.pc = "panic" => ENABLED Recover
  /\ (hw.panicked /\ hw.pc \in {"returned", "done"}) =>
       /\ hw.under.status = (IF hw.atPanic = 0 THEN StatusInternalServerError
                             ELSE hw.atPanic)
       /\ hw.rw.status = hw.under.status
       /\ hw.pc = "done" => hw.logged = hw.under.status

\* The inner handler sent 404, wrote and panicked: the request is done with
\* 404; and the witness of a panic before any header.
C23_Witness ==
  /\ hw.pc = "done" /\ hw.panicked
  /\ hw.ops = << StatusNotFound, 0 >>
  /\ hw.under.status = StatusNotFound
  /\ hw.under.body > ErrorLen

C23_WitnessNoHeader ==
  /\ hw.pc = "done" /\ hw.panicked
  /\ hw.ops = << >>
  /\ hw.under = [status |-> StatusInternalServerError, body |-> ErrorLen]

\* The delay d, an int64, as an integer of WideBytes bytes.
Widen(d) ==
  [i \in 1..WideBytes |->
     IF i <= Len(d) THEN d[i] ELSE IF Negative(d) THEN ByteBase - 1 ELSE 0]

\* C24: the delay with which an attempt begins is 0 for attempt 0 and
\* 20 ms * 2^(i-1) for attempt i >= 1, is not negative, and is not smaller
\* than the delay of the attempt before.
C24_Backoff ==
  [][(trip.pc = "loop" /\ trip'.pc = "select") =>
       /\ Widen(trip'.delay) = calcDelayWide(trip.i)
       /\ ~Negative(trip'.delay)
       /\ ~Less(trip'.delay, trip.delay)]_vars

\* Attempt 40 begins with a negative delay.
C24_Overflow ==
  /\ trip.pc = "select"
  /\ trip.i = 40
  /\ Negative(trip.delay)

\* The workers that were given a slot and have not given it back.
Holding ==
  Cardinality({w \in Callers \X SubIdx :
                 wk[w[1]][w[2]] \in {"run"} \cup Sent})
    + orphans.hold + orphans.sent

\* C25 as stated: whenever no refresh is in progress, no slot is held.
C25_NoSlotWhenIdle ==
  (\A c \in Callers : ~InFetch(c)) => sem = 0

\* C25: the slots held are those of the workers that were started and have
\* not yet given their slot back, each of which gives back one slot and
\* only one, however its fetch ends; so whenever no refresh is in progress
\* and no worker of an earlier refresh is still running, no slot is held.
C25_SlotsOfWorkers ==
  /\ sem = Holding
  /\ ((\A c \in Callers : ~InFetch(c)) /\ Alive = 0) => sem = 0

\* A refresh of g1 has been published, its workers have returned, no
\* refresh is in progress and no slot is held.
C25_Witness ==
  /\ result["g1"].ok
  /\ \A c \in Callers : ~InFetch(c)
  /\ Alive = 0 /\ sem = 0
  /\ \E k \in Clients : pc[k] = "idle" /\ get[k].name = "g1" /\ get[k].status = "ok"

\* C26: a refresh that has started stays in progress until it publishes: it
\* ends in no other way, so that it cannot fail to publish.
C26_RefreshPublishes ==
  [][\A c \in Callers :
       InFetch(c) => (InFetch(c)' \/ Completes(c))]_vars

\* C27: the forced refreshes of a group store in the order in which they
\* started: none stores over the entry of a refresh of the group that
\* started after it; and a forced Get returns the entry of its own refresh
\* or of one that started later.
C27_StartOrder ==
  [][/\ \A c \in Clients :
          (Completes(c) /\ result[fg[c].grp].ok) =>
            result[fg[c].grp].seq < fg[c].seq
     /\ \A k \in Clients :
          (Returns(k) /\ get'[k].force /\ get'[k].name \in GroupNames
             /\ get'[k].status # "panic") =>
            get'[k].from >= get'[k].seq]_vars

\* C28: no Get panics, whenever it is called: none of its sends on the
\* semaphore comes after Shutdown has closed it.
C28_GetNeverPanics ==
  \A k \in Clients : get[k].status # "panic"

\* C29: the send of the synthetic signal by a Run whose ListenAndServe
\* failed never blocks forever: Run is never in that send with the channel
\* full and the goroutine that receives from it past its one receive.
C29_SendNotStuck ==
  ~(srv.main = "send" /\ srv.sigint = SigintCap /\ srv.sd # "wait")

\* An attempt that called the transport ended in an error that does not
\* stop the loop, or in a retryable response.
Failed(o) ==
  IF o.err # {} THEN "Canceled" \notin o.err
  ELSE retryInternalServerError(o.resp) # {}

\* The cause an attempt leaves: the error of the transport as do joined it,
\* or the error of the retry check.
Cause(o) == IF o.err # {} THEN o.err ELSE retryInternalServerError(o.resp)

\* C30: a RoundTrip whose maxRetries attempts all called the transport and
\* all ended in a transport error or a retryable response returns no
\* response and ErrMaxRetries joined with the cause of the last attempt.
C30_Exhausted ==
  (/\ trip.pc = "done"
   /\ trip.maxRetries >= 1
   /\ Len(trip.tries) = trip.maxRetries
   /\ \A n \in 1..Len(trip.tries) : Failed(trip.tries[n])) =>
    trip.ret = [resp |-> 0,
                err |-> {"ErrMaxRetries"} \cup Cause(trip.tries[Len(trip.tries)])]

\* Three attempts: a response with 500, a transport error, a response with
\* 500; RoundTrip returned no response and ErrMaxRetries with the error of
\* the retry check; and with a transport error last.
C30_Witness ==
  /\ trip.pc = "done" /\ trip.maxRetries = 3
  /\ [n \in 1..Len(trip.tries) |-> trip.tries[n].resp] = <<500, 0, 500>>
  /\ "neterr" \in trip.tries[2].err
  /\ trip.ret.resp = 0
  /\ trip.ret.err = {"ErrMaxRetries"} \cup retryInternalServerError(500)
  /\ trip.ret.err # {"ErrMaxRetries"}

C30_WitnessTransport ==
  /\ trip.pc = "done" /\ trip.maxRetries = 2
  /\ Len(trip.tries) = 2
  /\ trip.tries[1].resp = 500
  /\ trip.ret = [resp |-> 0, err |-> {"ErrMaxRetries", "ErrRequest", "neterr"}]

\* The tries whose response body is open: a response came and nobody has
\* closed its body.
OpenTries == {n \in 1..Len(trip.tries) :
               trip.tries[n].resp # 0 /\ trip.tries[n].closed = 0}

\* C31: no body is closed twice; while RoundTrip runs, before every attempt
\* and between the attempts, no body obtained from the transport is open;
\* when RoundTrip has returned, the only body that may be open is the one of
\* the last response, and it is open exactly when that response is the one
\* handed to the caller; after the loop is exhausted or cancelled (no
\* response returned) none is open.
C31_BodiesClosed ==
  /\ \A n \in 1..Len(trip.tries) : trip.tries[n].closed <= 1
  /\ trip.pc \in {"loop", "select", "call"} => OpenTries = {}
  /\ trip.pc = "done" =>
       IF trip.ret.resp # 0
       THEN /\ OpenTries = {Len(trip.tries)}
            /\ trip.tries[Len(trip.tries)].resp = trip.ret.resp
       ELSE OpenTries = {}

\* RoundTrip has returned the response of its second attempt, whose body is
\* open, after a first response that was retryable and whose body is closed.
C31_Witness ==
  /\ trip.pc = "done"
  /\ Len(trip.tries) = 2
  /\ trip.tries[1].resp = 500 /\ trip.tries[1].closed = 1
  /\ trip.tries[2].resp = 200 /\ trip.tries[2].closed = 0
  /\ trip.ret.resp = 200

\* The loop is exhausted after retryable responses only: every body is
\* closed and no response is returned.
C31_WitnessExhausted ==
  /\ trip.pc = "done"
  /\ trip.ret.resp = 0
  /\ "ErrMaxRetries" \in trip.ret.err
  /\ Len(trip.tries) = MaxAttempts
  /\ \A n \in 1..Len(trip.tries) :
       trip.tries[n].resp = 500 /\ trip.tries[n].closed = 1

\* The refreshes that are fetching: not every result is collected yet.
Fetching == {c \in Callers : InFetch(c) /\ ~fg[c].ready}

\* C32: the cache lock is held by at most one refresh, and only by one that
\* has collected every result and is at its final store; a client inside
\* its forced refresh holds it only there. So while refreshes are fetching
\* and none is at its store, a Get without force of any group, by a client
\* that is not in a call, can take its read lock and return (as long as the
\* process lives and Get calls are left).
C32_GetNotBlocked ==
  /\ Cardinality(mu) <= 1
  /\ \A c \in mu : InFetch(c) /\ fg[c].ready /\ fg[c].i > NSubs(fg[c].grp)
  /\ mu \cap Fetching = {}
  /\ (Fetching # {} /\ mu = {} /\ ~crashed /\ TotalGets < MaxGets) =>
       \A k \in Clients, name \in GroupNames, decode \in BOOLEAN :
         pc[k] = "idle" => ENABLED GetCall(k, name, FALSE, decode)

\* A Get without force of a group has returned (no entry is stored yet)
\* while the forced refresh of another client is fetching that group, with
\* a worker running.
C32_Witness ==
  \E k, c \in Clients :
    /\ c \in Fetching
    /\ fg[c].grp = "g1"
    /\ wk[c] # NoWorkers
    /\ pc[k] = "idle"
    /\ get[k].name = "g1" /\ ~get[k].force /\ get[k].status = "notfound"
    /\ nGets[k] = 1
    /\ get[c].seq = 1

\* C33: the callers that hold a bucket of one key hold the same bucket, and
\* a caller whose Allow takes a token takes it from the bucket the map has
\* for its key, or from one no creation has replaced (the map has none).
C33_OneBucket ==
  [][/\ \A p, q \in LimCallers :
          (/\ lim.cl[p].pc = "allow" /\ lim.cl[q].pc = "allow"
           /\ lim.cl[p].key = lim.cl[q].key)
          => lim.cl[p].b = lim.cl[q].b
     /\ \A p \in LimCallers :
          (/\ lim.cl[p].pc = "allow"
           /\ lim'.cl[p].pc = "idle"
           /\ lim'.cl[p].ok = "true")
          => lim.buckets[lim.cl[p].key] \in {0, lim.cl[p].b}]_vars

\* What a call at the time now finds in a bucket after the refill:
\* min(burst, tokens + elapsed / interval * rate), in 1/Interval of a token.
Found(bucket) ==
  LET t == bucket.tokens + (lim.now - bucket.last) * lim.rate
      cap == lim.burst * Interval
  IN  IF cap < t THEN cap ELSE t

\* C34: every bucket ever made holds between 0 and burst tokens; a call of
\* Allow that finds less than one token after the refill gives false and
\* leaves what it found, one that finds at least one gives true and leaves
\* what it found less exactly one; either sets the bucket's last refill to
\* the time of the call and leaves the other buckets alone.
C34_TokensInRange ==
  [][/\ \A b \in 1..Len(lim.heap) :
          0 <= lim.heap[b].tokens /\ lim.heap[b].tokens <= lim.burst * Interval
     /\ \A p \in LimCallers :
          (lim.cl[p].pc = "allow" /\ lim'.cl[p].pc = "idle") =>
            LET b == lim.cl[p].b
                found == Found(lim.heap[b])
            IN  /\ lim'.cl[p].ok = (IF found < Interval THEN "false"
                                    ELSE "true")
                /\ lim'.heap[b].tokens = (IF found < Interval THEN found
                                          ELSE found - Interval)
                /\ lim'.heap[b].last = lim.now
                /\ \A o \in 1..Len(lim.heap) :
                     o # b => lim'.heap[o] = lim.heap[o]]_vars

\* A call after the start was refused on the half token it found, which
\* it left in the bucket, after calls of the key that were granted.
C34_Witness ==
  /\ \E p \in LimCallers :
       /\ lim.cl[p].pc = "idle" /\ lim.cl[p].ok = "false"
       /\ lim.heap[lim.cl[p].b].tokens = 1
       /\ lim.heap[lim.cl[p].b].last = lim.now
       /\ lim.now > 0
  /\ Len(lim.grants["ka"]) >= lim.burst

\* The keys whose bucket was last refilled more than the clean interval ago.
Stale == {k \in LimKeys :
            /\ lim.buckets[k] # 0
            /\ lim.heap[lim.buckets[k]].last + CleanInterval < lim.now}

\* C35: a step that takes entries out of the map or sets the count of the
\* cleanup goroutine is an eviction pass: it takes out the entries of
\* exactly the keys whose bucket was last refilled more than the clean
\* interval before the pass, leaves the other entries, every bucket with
\* its tokens and its last refill, the clock and the callers as they were,
\* and its count is the number of entries it took out.
C35_EvictionPass ==
  [][((\E k \in LimKeys : lim.buckets[k] # 0 /\ lim'.buckets[k] = 0)
        \/ lim'.count # lim.count) =>
       /\ \A k \in LimKeys :
            lim'.buckets[k] = (IF k \in Stale THEN 0 ELSE lim.buckets[k])
       /\ lim'.heap = lim.heap
       /\ lim'.cl = lim.cl
       /\ lim'.now = lim.now
       /\ lim'.count = Cardinality(Stale)]_vars

\* A pass has taken out the bucket of one key and left the bucket of the
\* other, which holds less than its burst and is still in the map.
C35_Witness ==
  /\ lim.count = 1
  /\ Len(lim.heap) = 2
  /\ lim.buckets["ka"] = 0
  /\ lim.buckets["kb"] # 0
  /\ lim.heap[lim.buckets["kb"]].tokens < lim.burst * Interval
  /\ lim.now - lim.heap[lim.buckets["kb"]].last <= CleanInterval

\* A pass has taken out the buckets of both keys at once.
C35_WitnessBoth ==
  /\ lim.count = 2
  /\ Len(lim.heap) = 2
  /\ lim.buckets["ka"] = 0 /\ lim.buckets["kb"] = 0

\* The pass can take its next step.
PassMoves ==
  \/ ENABLED EvictRUnlock
  \/ ENABLED EvictUnlock
  \/ \E k \in LimKeys : ENABLED EvictRLock(k)

\* The callers inside Allow, who hold the lock of their bucket.
InAllow == {p \in LimCallers : lim.cl[p].pc = "locked"}

\* C36: nobody waits in a circle. A caller that holds a bucket's lock (it
\* is inside Allow) waits for nothing; a pass, which holds irl, can move or
\* waits for the bucket of a caller inside Allow; a caller in
\* getOrCreateBucket can move or waits for the pass; a caller before
\* tb.Lock() can move or waits for a holder of the bucket, a caller inside
\* Allow or the pass at its read. So while a call or a pass is under way
\* some step of one of them can be taken. And a caller that finds no entry
\* for its key in getOrCreateBucket, as after an eviction, puts a new
\* bucket into the map that is full and last refilled now, and holds it.
C36_NoDeadlock ==
  [][/\ \A p \in InAllow : ENABLED AllowUnlock(p)
     /\ lim.pass.pc # "idle" =>
          \/ PassMoves
          \/ \E k \in lim.pass.scan, q \in InAllow :
               << q, lim.buckets[k] >> \in lim.pass.held
     /\ \A p \in LimCallers :
          /\ lim.cl[p].pc = "create" =>
               (ENABLED LockedGetOrCreateBucket(p) \/ lim.pass.pc # "idle")
          /\ lim.cl[p].pc = "allow" =>
               \/ ENABLED AllowLock(p)
               \/ \E q \in InAllow : << q, lim.cl[p].b >> \in lim.pass.held
               \/ /\ << "cleanup", lim.cl[p].b >> \in lim.pass.held
                  /\ ENABLED EvictRUnlock
     /\ \A p \in LimCallers :
          (/\ lim.cl[p].pc = "create"
           /\ lim'.cl[p].pc = "allow"
           /\ lim.buckets[lim.cl[p].key] = 0)
          => /\ lim'.heap = Append(lim.heap,
                                   [tokens |-> lim.burst * Interval,
                                    last |-> lim.now])
             /\ lim'.buckets[lim.cl[p].key] = Len(lim'.heap)
             /\ lim'.cl[p].b = Len(lim'.heap)]_vars

\* A pass waits at the bucket of a caller that is inside Allow, while the
\* other caller waits in getOrCreateBucket for the pass.
C36_Witness ==
  /\ lim.pass.pc = "scan"
  /\ ~PassMoves
  /\ \E p, q \in Clients :
       /\ lim.cl[p].pc = "locked"
       /\ lim.cl[q].pc = "create"

\* After a pass removed the bucket of a key, a caller has made a new full
\* bucket for it.
C36_WitnessFresh ==
  /\ lim.count = 1
  /\ Len(lim.heap) = 2
  /\ lim.buckets["ka"] = 2
  /\ lim.heap[2].tokens = lim.burst * Interval
  /\ \E p \in Clients : lim.cl[p].pc = "allow" /\ lim.cl[p].b = 2

\* C37: once the cleanup goroutine has taken the case of ctx.Done() it is
\* stopped for good: no pass is made (no entry leaves the map, the count
\* stays) and its done channel, closed by that step and by no other, stays
\* closed. It takes that case only after limiterCancel(). Run returns only
\* with the done channel closed, which for a limiter that is on means that
\* the goroutine has stopped; and a limiter that is off has no goroutine
\* and a done channel that is closed from the start.
C37_CleanupStops ==
  [][/\ lim.task = "stopped" =>
          /\ lim'.task = "stopped"
          /\ lim.done /\ lim'.done
          /\ \A k \in LimKeys : lim.buckets[k] # 0 => lim'.buckets[k] # 0
          /\ lim'.count = lim.count
     /\ (lim.task = "run" /\ lim'.task = "stopped") =>
          lim.ctx = "done" /\ ~lim.done /\ lim'.done
     /\ (~lim.done /\ lim'.done) =>
          \/ lim.task = "run" /\ lim'.task = "stopped"
          \/ lim.pc = "new" /\ lim'.pc = "off"
     /\ (lim.done /\ lim.task # "stopped") =>
          lim.pc = "off" /\ lim.task = "none"
     /\ (srv.state # "returned" /\ srv'.state = "returned") =>
          /\ lim.done
          /\ lim.pc = "on" => lim.task = "stopped"
          /\ lim.pc = "off" => lim.task = "none"]_vars

\* Run has returned after its limiter evicted a bucket and its cleanup
\* goroutine stopped.
C37_Witness ==
  /\ srv.state = "returned"
  /\ lim.pc = "on" /\ lim.task = "stopped" /\ lim.done
  /\ lim.count = 1

\* Run has returned with the limiter off.
C37_WitnessOff ==
  /\ srv.state = "returned"
  /\ lim.pc = "off" /\ lim.done /\ lim.task = "none"

\* C38: the handler of a request touches the crawler (calls Get, starts a
\* refresh, takes a slot, stores an entry) only from handleGroup, which a
\* request reaches only with the method GET and, when the limiter is on,
\* after the limiter let it pass; every other step of the handler leaves
\* the crawler, its entries and its slots as they were. A response 429 or
\* 405 is written for a request for which Get was never called, forced or
\* not.
C38_DeniedNotServed ==
  [][\A k \in HttpClients :
       /\ srv.req[k].pc = "get" =>
            /\ srv.req[k].method = "GET"
            /\ lim.pc = "on" => lim.cl[k].ok = "true"
       /\ ((srv'.req[k] # srv.req[k] \/ lim'.cl[k] # lim.cl[k]
              \/ srv'.resp[k] # srv.resp[k])
             /\ srv.req[k].pc # "get") => UNCHANGED cvars
       /\ (pc'[k] # pc[k] \/ fg'[k] # fg[k] \/ nGets'[k] # nGets[k]) =>
            srv.req[k].pc = "get"
       /\ (srv'.nResp # srv.nResp
             /\ srv'.resp[k].status \in {StatusTooManyRequests,
                                         StatusMethodNotAllowed}) =>
            /\ UNCHANGED cvars
            /\ srv.req[k].pc # "get"
            /\ srv.req[k].pc # "idle" => nGets[k] = srv.req[k].n]_vars

\* A forced GET for a group was refused by the limiter and answered 429,
\* and no Get was ever called for the group.
C38_Witness ==
  /\ srv.req["k1"].pc = "idle"
  /\ srv.resp["k1"].status = StatusTooManyRequests
  /\ srv.resp["k1"].method = "GET"
  /\ srv.resp["k1"].path = "/g2"
  /\ srv.resp["k1"].force
  /\ nGets["k1"] = 0

\* A forced POST for a group passed the limiter and was answered 405.
C38_WitnessPost ==
  /\ srv.req["k1"].pc = "idle"
  /\ srv.resp["k1"].status = StatusMethodNotAllowed
  /\ srv.resp["k1"].method = "POST"
  /\ srv.resp["k1"].path = "/g2"
  /\ srv.resp["k1"].force
  /\ lim.cl["k1"].ok = "true"
  /\ nGets["k1"] = 0

\* The places of the tokens of the call that start with one of its prefixes.
Kept ==
  {i \in 1..Len(flt.subURLs) :
     \E p \in flt.prefixes :
       /\ Len(p) <= Len(flt.subURLs[i])
       /\ \A n \in 1..Len(p) : flt.subURLs[i][n] = p[n]}

\* The n-th of these places.
KeptAt(n) == CHOOSE i \in Kept : Cardinality({j \in Kept : j <= i}) = n

\* C39: a call of Filter with a set of prefixes that is not empty returns
\* the tokens that start with one of them, each as often as and in the
\* order in which the list has it, and no token when none starts with one;
\* with no prefix it returns the list as it is; and what it returns is what
\* a fetch of a subscription with these prefixes, whose body is the list,
\* contributes to the refresh of its group.
C39_FilterExact ==
  flt.pc = "done" =>
    /\ flt.prefixes = {} => flt.out = flt.subURLs
    /\ flt.prefixes # {} =>
         /\ Len(flt.out) = Cardinality(Kept)
         /\ \A n \in 1..Len(flt.out) : flt.out[n] = flt.subURLs[KeptAt(n)]
    /\ fetchSubscription([name |-> "s", encoded |-> FALSE,
                          prefixes |-> flt.prefixes,
                          body |-> Join(flt.subURLs, <<LF>>)], "ok").urls
         = flt.out

\* A call with two prefixes returned the first and the third of three
\* tokens, the same token twice.
C39_Witness ==
  /\ flt.pc = "done"
  /\ flt.prefixes = {<<97, 98>>, <<99>>}
  /\ flt.subURLs = << <<97, 98>>, <<97>>, <<97, 98>> >>
  /\ flt.out = << <<97, 98>>, <<97, 98>> >>

\* A call in which no token has the prefix returned nothing.
C39_WitnessNone ==
  /\ flt.pc = "done"
  /\ flt.prefixes = {<<99>>}
  /\ flt.subURLs = << <<97>>, <<98>> >>
  /\ flt.out = << >>

====
